---------------------------- MODULE Spec2Model ----------------------------
(***************************************************************************)
(* A model of the pyc-parser back end: the semantic analyzer that lowers   *)
(* an AST to IR (semantic_analyzer.py), the code generator that resolves   *)
(* labels and packs the pools (codegen.py), and the stack VM that runs the *)
(* bytecode (vm.py).  A behaviour compiles one program in Init and then    *)
(* executes it one VM instruction per step.                                *)
(***************************************************************************)
EXTENDS Integers, Sequences, FiniteSets

(***************************************************************************)
(* Bounds of the model.                                                    *)
(***************************************************************************)
\* longest top-level statement list of a program
MaxStmts == 3
\* most instructions one run dispatches (loops of the language are unbounded)
MaxSteps == 60
\* deepest nesting of active calls (recursion of the language is unbounded)
MaxDepth == 3

(***************************************************************************)
(* Runtime values.  Python values are tagged: t is the Python type, v the  *)
(* number of an int or a bool (True = 1, False = 0), items the elements of *)
(* a list.  A float is the rational v / d in lowest terms with d > 0: the  *)
(* model computes with the exact ratio where Python rounds to a double.    *)
(***************************************************************************)
IntV(n) == [t |-> "int", v |-> n, d |-> 1, items |-> <<>>]
BoolV(b) == [t |-> "bool", v |-> IF b THEN 1 ELSE 0, d |-> 1, items |-> <<>>]
NoneV == [t |-> "none", v |-> 0, d |-> 1, items |-> <<>>]
ListV(s) == [t |-> "list", v |-> 0, d |-> 1, items |-> s]

Abs(n) == IF n < 0 THEN 0 - n ELSE n

RECURSIVE GCD(_, _)
GCD(a, b) == IF b = 0 THEN a ELSE GCD(b, a % b)

\* the float n / d, for d # 0
FloatV(n, d) ==
    LET g == GCD(Abs(n), Abs(d))
        s == IF d < 0 THEN 0 - 1 ELSE 1
    IN  [t |-> "float", v |-> (s * n) \div g, d |-> Abs(d) \div g,
         items |-> <<>>]

\* isinstance(a, int): bool is a subclass of int
IsInt(a) == a.t \in {"int", "bool"}

\* a number of Python: int, bool or float
IsNum(a) == a.t \in {"int", "bool", "float"}

\* Python truth value: bool(value)
Truthy(a) ==
    CASE a.t = "none" -> FALSE
      [] a.t = "list" -> Len(a.items) > 0
      [] OTHER -> a.v # 0

\* Python ==, on the values of the model
RECURSIVE PyEq(_, _)
PyEq(a, b) ==
    IF IsNum(a) /\ IsNum(b) THEN a.v * b.d = b.v * a.d
    ELSE IF a.t = "none" /\ b.t = "none" THEN TRUE
    ELSE IF a.t = "list" /\ b.t = "list"
         THEN /\ Len(a.items) = Len(b.items)
              /\ \A i \in 1..Len(a.items) : PyEq(a.items[i], b.items[i])
    ELSE FALSE

\* an operation's outcome: a value, or the Python exception it raises
Ok(val) == [ok |-> TRUE, val |-> val, err |-> ""]
Raise(e) == [ok |-> FALSE, val |-> NoneV, err |-> e]

\* a quotient rounded toward zero, as C's / rounds
TruncDiv(a, b) ==
    IF (a < 0) = (b < 0) THEN Abs(a) \div Abs(b)
    ELSE 0 - (Abs(a) \div Abs(b))

\* Python //, rounding toward negative infinity, for a nonzero divisor
PyFloorDiv(a, b) ==
    IF b > 0 THEN a \div b ELSE (0 - a) \div (0 - b)

\* Python %, with the sign of the divisor
PyMod(a, b) == a - b * PyFloorDiv(a, b)

\* Python / on numbers of which one is a float: the ratio, a float
TrueDiv(a, b) == FloatV(a.v * b.d, a.d * b.v)

\* Python % on numbers of which one is a float, for a nonzero divisor:
\* a - b * floor(a / b), a float
FloatMod(a, b) ==
    LET q == PyFloorDiv(a.v * b.d, a.d * b.v)
    IN  FloatV(a.v * b.d - q * b.v * a.d, a.d * b.d)

RECURSIVE Repeat(_, _)
Repeat(s, n) == IF n <= 0 THEN <<>> ELSE s \o Repeat(s, n - 1)

\* Python <, >, <=, >= : numbers by value, lists lexicographically (the first
\* pair of unequal elements decides, else the lengths), TypeError otherwise
RECURSIVE Compare(_, _, _)
Compare(op, a, b) ==
    LET Rel(x, y) == CASE op = "LT" -> x < y
                       [] op = "GT" -> x > y
                       [] op = "LE" -> x <= y
                       [] OTHER -> x >= y
    IN  IF IsNum(a) /\ IsNum(b) THEN Ok(BoolV(Rel(a.v * b.d, b.v * a.d)))
        ELSE IF a.t = "list" /\ b.t = "list"
        THEN LET n == IF Len(a.items) < Len(b.items)
                      THEN Len(a.items) ELSE Len(b.items)
                 diff == {i \in 1..n : ~PyEq(a.items[i], b.items[i])}
             IN  IF diff = {}
                 THEN Ok(BoolV(Rel(Len(a.items), Len(b.items))))
                 ELSE LET i == CHOOSE j \in diff : \A m \in diff : j <= m
                      IN  Compare(op, a.items[i], b.items[i])
        ELSE Raise("TypeError")

\* an "and" that gives the truth value of the conjunction
AndAsBoolean(left, right) == BoolV(Truthy(left) /\ Truthy(right))

\* Python's "left and right" and "left or right" on two values that have
\* both been computed: one of the two values
AndResult(left, right) == IF Truthy(left) THEN right ELSE left
OrResult(left, right) == IF Truthy(left) THEN left ELSE right

\* the binary operator branches of VM._execute_instruction: left op right
BinaryResult(op, left, right) ==
    CASE op = "ADD" ->
           IF IsInt(left) /\ IsInt(right) THEN Ok(IntV(left.v + right.v))
           ELSE IF IsNum(left) /\ IsNum(right)
                THEN Ok(FloatV(left.v * right.d + right.v * left.d,
                               left.d * right.d))
           ELSE IF left.t = "list" /\ right.t = "list"
                THEN Ok(ListV(left.items \o right.items))
           ELSE Raise("TypeError")
      [] op = "SUB" ->
           IF IsInt(left) /\ IsInt(right) THEN Ok(IntV(left.v - right.v))
           ELSE IF IsNum(left) /\ IsNum(right)
                THEN Ok(FloatV(left.v * right.d - right.v * left.d,
                               left.d * right.d))
           ELSE Raise("TypeError")
      [] op = "MUL" ->
           IF IsInt(left) /\ IsInt(right) THEN Ok(IntV(left.v * right.v))
           ELSE IF IsNum(left) /\ IsNum(right)
                THEN Ok(FloatV(left.v * right.v, left.d * right.d))
           ELSE IF left.t = "list" /\ IsInt(right)
                THEN Ok(ListV(Repeat(left.items, right.v)))
           ELSE IF IsInt(left) /\ right.t = "list"
                THEN Ok(ListV(Repeat(right.items, left.v)))
           ELSE Raise("TypeError")
      [] op = "DIV" ->
           IF PyEq(right, IntV(0)) THEN Raise("DivisionByZero")
           ELSE IF IsInt(left) /\ IsInt(right)
                THEN Ok(IntV(PyFloorDiv(left.v, right.v)))
           ELSE IF IsNum(left) /\ IsNum(right)
                THEN Ok(TrueDiv(left, right))
           ELSE Raise("TypeError")
      [] op = "MOD" ->
           IF IsNum(left) /\ IsNum(right)
           THEN IF right.v = 0 THEN Raise("ZeroDivisionError")
                ELSE IF IsInt(left) /\ IsInt(right)
                     THEN Ok(IntV(PyMod(left.v, right.v)))
                ELSE Ok(FloatMod(left, right))
           ELSE Raise("TypeError")
      [] op = "EQ" -> Ok(BoolV(PyEq(left, right)))
      [] op = "NEQ" -> Ok(BoolV(~PyEq(left, right)))
      [] op \in {"LT", "GT", "LE", "GE"} -> Compare(op, left, right)
      [] op = "AND" -> Ok(AndResult(left, right))
      [] op = "OR" -> Ok(OrResult(left, right))

\* the unary operator branches of VM._execute_instruction
UnaryResult(op, value) ==
    CASE op = "NEGATE" ->
           IF IsInt(value) THEN Ok(IntV(0 - value.v))
           ELSE IF IsNum(value) THEN Ok(FloatV(0 - value.v, value.d))
           ELSE Raise("TypeError")
      [] op = "POS" ->
           IF IsInt(value) THEN Ok(IntV(value.v))
           ELSE IF IsNum(value) THEN Ok(value)
           ELSE Raise("TypeError")
      [] op = "NOT" -> Ok(BoolV(~Truthy(value)))

(***************************************************************************)
(* The AST handed to the analyzer (astmod.py).  k is the node class.       *)
(***************************************************************************)
Literal(value) == [k |-> "Literal", value |-> value]
Var(name) == [k |-> "Var", name |-> name]
Binary(op, left, right) ==
    [k |-> "Binary", op |-> op, left |-> left, right |-> right]
Unary(op, expr) == [k |-> "Unary", op |-> op, expr |-> expr]
Call(fname, args) == [k |-> "Call", func |-> Var(fname), args |-> args]
ListLiteral(items) == [k |-> "ListLiteral", items |-> items]
Block(stmts) == [k |-> "Block", stmts |-> stmts]
NoBlock == [k |-> "None"]
ExprStmt(expr) == [k |-> "ExprStmt", expr |-> expr]
Assign(name, expr) == [k |-> "Assign", name |-> name, expr |-> expr]
If(cond, then_block, else_block) ==
    [k |-> "If", cond |-> cond, then_block |-> then_block,
     else_block |-> else_block]
While(cond, body) == [k |-> "While", cond |-> cond, body |-> body]
For(varname, iterable, body) ==
    [k |-> "For", varname |-> varname, iterable |-> iterable, body |-> body]
FuncDef(name, params, body) ==
    [k |-> "FuncDef", name |-> name, params |-> params, body |-> body]
Return(expr) == [k |-> "Return", expr |-> expr]
ReturnNone == [k |-> "Return", expr |-> [k |-> "None"]]
Pass == [k |-> "Pass"]
PrintStmt(args) == [k |-> "Print", args |-> args]
Program(stmts) == [k |-> "Program", stmts |-> stmts]

(***************************************************************************)
(* The IR (semantic_analyzer.py).  An instruction is an opcode tag and its *)
(* operands: a literal (val), a name, a count (num), a label, a parameter  *)
(* list.  Label n stands for the string "L<n>" of IR.new_label, which is   *)
(* one string per counter value.                                           *)
(***************************************************************************)
IRInstruction(op) ==
    [op |-> op, name |-> "", val |-> NoneV, num |-> 0, label |-> 0,
     params |-> <<>>]
IRConst(val) == [IRInstruction("LOAD_CONST") EXCEPT !.val = val]
IRName(op, name) == [IRInstruction(op) EXCEPT !.name = name]
IRLabel(op, label) == [IRInstruction(op) EXCEPT !.label = label]
IRNum(op, num) == [IRInstruction(op) EXCEPT !.num = num]

\* IR(): no instructions, no functions, label counter 0; SymbolTable(): one
\* empty scope at level 0
NewAnalyzer ==
    [instructions |-> <<>>, functions |-> <<>>, label_counter |-> 0,
     scopes |-> <<{}>>, scope_level |-> 0]

\* an analyzer that is an earlier one used again, with everything that one
\* has emitted and counted
ReusedAnalyzer(previous) == previous

\* SemanticAnalyzer() while an earlier instance exists: __init__ makes a new
\* IR and a new SymbolTable, and neither class keeps anything at class or
\* module level, so nothing of the earlier instance is in the new one
FreshAnalyzer(previous) == NewAnalyzer

\* IR.emit
Emit(st, instr) == [st EXCEPT !.instructions = Append(@, instr)]

\* SymbolTable.define: into the innermost scope
Define(st, name) ==
    [st EXCEPT !.scopes[Len(st.scopes)] = @ \cup {name}]

RECURSIVE DefineAll(_, _)
DefineAll(st, names) ==
    IF Len(names) = 0 THEN st
    ELSE DefineAll(Define(st, Head(names)), Tail(names))

\* SymbolTable.push_scope
PushScope(st) ==
    [st EXCEPT !.scopes = Append(@, {}), !.scope_level = @ + 1]

\* SymbolTable.pop_scope
PopScope(st) ==
    IF st.scope_level > 0
    THEN [st EXCEPT !.scopes = SubSeq(@, 1, Len(@) - 1),
                    !.scope_level = @ - 1]
    ELSE st

\* a Python dict kept as the sequence of its entries in insertion order:
\* assigning to a key that is present replaces the value in place
DictSet(d, entry) ==
    IF \E i \in 1..Len(d) : d[i].name = entry.name
    THEN [i \in 1..Len(d) |-> IF d[i].name = entry.name THEN entry ELSE d[i]]
    ELSE Append(d, entry)

DictHas(d, name) == \E i \in 1..Len(d) : d[i].name = name

DictGet(d, name) == d[CHOOSE i \in 1..Len(d) : d[i].name = name]

\* op_map of visit_Binary
BinaryOpMap(op) ==
    CASE op = "+" -> "ADD" [] op = "-" -> "SUB" [] op = "*" -> "MUL"
      [] op = "/" -> "DIV" [] op = "%" -> "MOD" [] op = "==" -> "EQ"
      [] op = "!=" -> "NEQ" [] op = "<" -> "LT" [] op = ">" -> "GT"
      [] op = "<=" -> "LE" [] op = ">=" -> "GE" [] op = "and" -> "AND"
      [] op = "or" -> "OR"

\* op_map of visit_Unary
UnaryOpMap(op) ==
    CASE op = "-" -> "NEGATE" [] op = "+" -> "POS" [] op = "not" -> "NOT"

\* a label generator that does not count: every call gives the same label
SameLabel(st, n) == st.label_counter

\* IR.new_label, called for the n-th time (n = 0, 1, ...) since the counter
\* was st.label_counter: the label is made from the counter, and each call
\* has added one to it
NewLabel(st, n) == st.label_counter + n

RECURSIVE Visit(_, _), VisitAll(_, _)

\* SemanticAnalyzer.visit_If
VisitIf(node, st) ==
    LET else_label == NewLabel(st, 0)
        end_label == NewLabel(st, 1)
        s0 == [st EXCEPT !.label_counter = @ + 2]
        s1 == Emit(Visit(node.cond, s0), IRLabel("JUMP_IF_FALSE", else_label))
        s2 == Emit(Visit(node.then_block, s1), IRLabel("JUMP", end_label))
        s3 == Emit(s2, IRLabel("LABEL", else_label))
        s4 == IF node.else_block.k = "None" THEN s3
              ELSE Visit(node.else_block, s3)
    IN  Emit(s4, IRLabel("LABEL", end_label))

\* SemanticAnalyzer.visit_While
VisitWhile(node, st) ==
    LET loop_label == NewLabel(st, 0)
        exit_label == NewLabel(st, 1)
        s0 == [st EXCEPT !.label_counter = @ + 2]
        s1 == Emit(s0, IRLabel("LABEL", loop_label))
        s2 == Emit(Visit(node.cond, s1), IRLabel("JUMP_IF_FALSE", exit_label))
        s3 == Emit(Visit(node.body, s2), IRLabel("JUMP", loop_label))
    IN  Emit(s3, IRLabel("LABEL", exit_label))

\* SemanticAnalyzer.visit_For
VisitFor(node, st) ==
    LET loop_label == NewLabel(st, 0)
        exit_label == NewLabel(st, 1)
        s0 == Define([st EXCEPT !.label_counter = @ + 2], node.varname)
        s1 == Emit(Visit(node.iterable, s0), IRInstruction("SETUP_LOOP"))
        s2 == Emit(s1, IRLabel("LABEL", loop_label))
        s3 == Emit(s2, [IRLabel("FOR_ITER", exit_label)
                          EXCEPT !.name = node.varname])
        s4 == Emit(Visit(node.body, s3), IRLabel("JUMP", loop_label))
    IN  Emit(s4, IRLabel("LABEL", exit_label))

\* a visit_FuncDef that keeps emitting into the current sequence: the body
\* goes where the definition stands, and the function table gets the whole
\* sequence
FuncDefInPlace(node, st) ==
    LET s0 == DefineAll(PushScope(st), node.params)
        s2 == Emit(Visit(node.body, s0), IRInstruction("RETURN_VALUE"))
        s3 == [s2 EXCEPT !.functions =
                 DictSet(@, [name |-> node.name,
                             instrs |-> s2.instructions,
                             params |-> node.params])]
    IN  PopScope(Emit(s3, [IRName("DEF_FUNCTION", node.name)
                             EXCEPT !.params = node.params]))

\* SemanticAnalyzer.visit_FuncDef
VisitFuncDef(node, st) ==
    LET s0 == DefineAll(PushScope(st), node.params)
        old_instructions == s0.instructions
        s1 == Visit(node.body, [s0 EXCEPT !.instructions = <<>>])
        s2 == Emit(s1, IRInstruction("RETURN_VALUE"))
        s3 == [s2 EXCEPT !.functions =
                 DictSet(@, [name |-> node.name,
                             instrs |-> s2.instructions,
                             params |-> node.params])]
        s4 == Emit([s3 EXCEPT !.instructions = old_instructions],
                   [IRName("DEF_FUNCTION", node.name)
                      EXCEPT !.params = node.params])
    IN  PopScope(s4)

\* SemanticAnalyzer.visit: the visit_<class> method of each node
Visit(node, st) ==
    CASE node.k = "Program" -> VisitAll(node.stmts, st)
      [] node.k = "Block" -> VisitAll(node.stmts, st)
      [] node.k = "ExprStmt" ->
           Emit(Visit(node.expr, st), IRInstruction("POP"))
      [] node.k = "Assign" ->
           Emit(Define(Visit(node.expr, st), node.name),
                IRName("STORE", node.name))
      [] node.k = "If" -> VisitIf(node, st)
      [] node.k = "While" -> VisitWhile(node, st)
      [] node.k = "For" -> VisitFor(node, st)
      [] node.k = "FuncDef" -> VisitFuncDef(node, st)
      [] node.k = "Return" ->
           Emit(IF node.expr.k = "None" THEN Emit(st, IRConst(NoneV))
                ELSE Visit(node.expr, st),
                IRInstruction("RETURN_VALUE"))
      [] node.k = "Pass" -> Emit(st, IRInstruction("NOP"))
      [] node.k = "Print" ->
           Emit(VisitAll(node.args, st), IRNum("PRINT", Len(node.args)))
      [] node.k = "Binary" ->
           Emit(Visit(node.right, Visit(node.left, st)),
                IRInstruction(BinaryOpMap(node.op)))
      [] node.k = "Unary" ->
           Emit(Visit(node.expr, st), IRInstruction(UnaryOpMap(node.op)))
      [] node.k = "Literal" -> Emit(st, IRConst(node.value))
      [] node.k = "Var" -> Emit(st, IRName("LOAD", node.name))
      [] node.k = "Call" ->
           Emit(VisitAll(node.args, st),
                [IRName("CALL_FUNCTION", node.func.name)
                   EXCEPT !.num = Len(node.args)])
      [] node.k = "ListLiteral" ->
           Emit(VisitAll(node.items, st),
                IRNum("BUILD_LIST", Len(node.items)))

\* the loops "for stmt in node.stmts: self.visit(stmt)": each visit has
\* returned before the next one starts.  (Comparing the state after a visit
\* makes TLC compute it there, and not inside the visits that follow.)
VisitAll(nodes, st) ==
    IF Len(nodes) = 0 THEN st
    ELSE LET visited == Visit(Head(nodes), st)
         IN  IF visited = st THEN VisitAll(Tail(nodes), st)
             ELSE VisitAll(Tail(nodes), visited)

\* SemanticAnalyzer.analyze on a fresh analyzer
Analyze(ast) == Visit(ast, NewAnalyzer)

(***************************************************************************)
(* The code generator (codegen.py).                                        *)
(***************************************************************************)
\* OPCODES: the opcode number of each instruction name
OPCODES(op) ==
    CASE op = "LOAD_CONST" -> 1 [] op = "LOAD" -> 2 [] op = "STORE" -> 3
      [] op = "POP" -> 4 [] op = "ADD" -> 5 [] op = "SUB" -> 6
      [] op = "MUL" -> 7 [] op = "DIV" -> 8 [] op = "MOD" -> 9
      [] op = "NEGATE" -> 10 [] op = "POS" -> 11 [] op = "NOT" -> 12
      [] op = "EQ" -> 13 [] op = "NEQ" -> 14 [] op = "LT" -> 15
      [] op = "GT" -> 16 [] op = "LE" -> 17 [] op = "GE" -> 18
      [] op = "AND" -> 19 [] op = "OR" -> 20 [] op = "JUMP" -> 21
      [] op = "JUMP_IF_FALSE" -> 22 [] op = "LABEL" -> 23
      [] op = "PRINT" -> 24 [] op = "CALL_FUNCTION" -> 25
      [] op = "RETURN_VALUE" -> 26 [] op = "NOP" -> 27
      [] op = "BUILD_LIST" -> 28 [] op = "SETUP_LOOP" -> 29
      [] op = "FOR_ITER" -> 30 [] op = "DEF_FUNCTION" -> 31

OpcodeNames ==
    {"LOAD_CONST", "LOAD", "STORE", "POP", "ADD", "SUB", "MUL", "DIV", "MOD",
     "NEGATE", "POS", "NOT", "EQ", "NEQ", "LT", "GT", "LE", "GE", "AND", "OR",
     "JUMP", "JUMP_IF_FALSE", "LABEL", "PRINT", "CALL_FUNCTION",
     "RETURN_VALUE", "NOP", "BUILD_LIST", "SETUP_LOOP", "FOR_ITER",
     "DEF_FUNCTION"}

\* the keys of OPCODE_ARGS
OpcodesWithArgs ==
    {"LOAD_CONST", "LOAD", "STORE", "JUMP", "JUMP_IF_FALSE", "FOR_ITER",
     "PRINT", "CALL_FUNCTION", "BUILD_LIST", "DEF_FUNCTION"}

\* OPCODE_ARGS: the operand count the sizing pass adds for an opcode
OPCODE_ARGS(op) ==
    CASE op \in {"FOR_ITER", "CALL_FUNCTION", "DEF_FUNCTION"} -> 2
      [] OTHER -> 1

\* a membership test that never finds the value: every literal is appended
NeverInConstants(constants, val) == FALSE

\* "val in self.bytecode.constants": Python's list membership compares with ==
InConstants(constants, val) ==
    \E i \in 1..Len(constants) : PyEq(constants[i], val)

\* self.bytecode.constants.index(val): the 0-based position of the first
\* entry equal (==) to val
ConstantIndex(constants, val) ==
    (CHOOSE i \in 1..Len(constants) :
        /\ PyEq(constants[i], val)
        /\ \A j \in 1..(i - 1) : ~PyEq(constants[j], val)) - 1

InNames(names, name) == \E i \in 1..Len(names) : names[i] = name

\* "names.index(name) if name in names else 0"
NameIndex(names, name) ==
    IF InNames(names, name)
    THEN (CHOOSE i \in 1..Len(names) :
            /\ names[i] = name
            /\ \A j \in 1..(i - 1) : names[j] # name) - 1
    ELSE 0

\* CodeGenerator._collect_from_instrs, from instruction i on
RECURSIVE CollectFromInstrs(_, _, _)
CollectFromInstrs(pools, instrs, i) ==
    IF i > Len(instrs) THEN pools
    ELSE LET instr == instrs[i]
         IN  IF /\ instr.op = "LOAD_CONST"
                /\ ~InConstants(pools.constants, instr.val)
             THEN CollectFromInstrs(
                      [pools EXCEPT !.constants = Append(@, instr.val)],
                      instrs, i + 1)
             ELSE IF /\ instr.op \in {"LOAD", "STORE", "CALL_FUNCTION",
                                      "DEF_FUNCTION"}
                     /\ ~InNames(pools.names, instr.name)
             THEN CollectFromInstrs(
                      [pools EXCEPT !.names = Append(@, instr.name)],
                      instrs, i + 1)
             ELSE CollectFromInstrs(pools, instrs, i + 1)

\* the loop of _collect_resources over ir.functions.values(), from entry i on
RECURSIVE CollectFromFunctions(_, _, _)
CollectFromFunctions(pools, funcs, i) ==
    IF i > Len(funcs) THEN pools
    ELSE CollectFromFunctions(CollectFromInstrs(pools, funcs[i].instrs, 1),
                              funcs, i + 1)

\* Bytecode(): no code, empty pools, no functions
NewBytecode ==
    [code |-> <<>>, constants |-> <<>>, names |-> <<>>, functions |-> <<>>]

\* CodeGenerator() while an earlier instance exists: __init__ makes a new
\* Bytecode, whose lists and dict are made in Bytecode.__init__, so nothing
\* of the earlier instance is in the new one
FreshBytecode(previous) == NewBytecode

\* CodeGenerator._collect_resources, of a generator whose bytecode is bc
CollectResourcesInto(bc, ir) ==
    CollectFromFunctions(
        CollectFromInstrs([constants |-> bc.constants, names |-> bc.names],
                          ir.instructions, 1),
        ir.functions, 1)

\* CodeGenerator._collect_resources, of a new generator
CollectResources(ir) == CollectResourcesInto(NewBytecode, ir)

\* the words the sizing pass of _generate_code counts for one instruction
SizeOf(instr) ==
    IF instr.op = "LABEL" THEN 0
    ELSE IF instr.op \in OpcodesWithArgs THEN 1 + OPCODE_ARGS(instr.op)
    ELSE 1

\* code_pos of the sizing pass when it reaches instruction i (1-based)
RECURSIVE CodePos(_, _)
CodePos(instrs, i) ==
    IF i <= 1 THEN 0 ELSE CodePos(instrs, i - 1) + SizeOf(instrs[i - 1])

\* the first pass of _generate_code: label -> code_pos at the LABEL
\* instruction (the last one, if a label were defined twice)
LabelPositions(instrs) ==
    LET labelled == {i \in 1..Len(instrs) : instrs[i].op = "LABEL"}
        labels == {instrs[i].label : i \in labelled}
    IN  [l \in labels |->
           LET i == CHOOSE j \in labelled :
                      /\ instrs[j].label = l
                      /\ \A m \in labelled : instrs[m].label = l => m <= j
           IN  CodePos(instrs, i)]

\* label_positions.get(label, 0)
LabelTarget(label_positions, label) ==
    IF label \in DOMAIN label_positions THEN label_positions[label] ELSE 0

\* CodeGenerator._emit_instruction: the words appended for one instruction
EmitInstruction(instr, label_positions, pools) ==
    LET op == instr.op
    IN  CASE op = "LABEL" -> <<>>
          [] op = "LOAD_CONST" ->
               <<OPCODES(op), ConstantIndex(pools.constants, instr.val)>>
          [] op \in {"LOAD", "STORE"} ->
               <<OPCODES(op), NameIndex(pools.names, instr.name)>>
          [] op \in {"JUMP", "JUMP_IF_FALSE"} ->
               <<OPCODES(op), LabelTarget(label_positions, instr.label)>>
          [] op = "FOR_ITER" ->
               <<OPCODES(op), LabelTarget(label_positions, instr.label),
                 NameIndex(pools.names, instr.name)>>
          [] op = "CALL_FUNCTION" ->
               <<OPCODES(op), NameIndex(pools.names, instr.name), instr.num>>
          [] op \in {"PRINT", "BUILD_LIST"} -> <<OPCODES(op), instr.num>>
          [] op = "DEF_FUNCTION" ->
               <<OPCODES(op), NameIndex(pools.names, instr.name)>>
          [] OTHER -> <<OPCODES(op)>>

\* the second pass of _generate_code, from instruction i on
RECURSIVE EmitAll(_, _, _, _)
EmitAll(instrs, i, label_positions, pools) ==
    IF i > Len(instrs) THEN <<>>
    ELSE EmitInstruction(instrs[i], label_positions, pools)
           \o EmitAll(instrs, i + 1, label_positions, pools)

\* CodeGenerator._generate_code: the code of one instruction sequence
GenerateCode(instrs, pools) ==
    EmitAll(instrs, 1, LabelPositions(instrs), pools)

\* the loop of generate over ir.functions.items(): bytecode.functions, a
\* dict in the order of ir.functions
GenerateFunctions(funcs, pools) ==
    [i \in 1..Len(funcs) |->
       [name |-> funcs[i].name,
        code |-> GenerateCode(funcs[i].instrs, pools),
        params |-> funcs[i].params]]

\* "self.bytecode.functions[func_name] = ..." for each entry, from entry
\* i on
RECURSIVE PutFunctions(_, _, _)
PutFunctions(d, entries, i) ==
    IF i > Len(entries) THEN d
    ELSE PutFunctions(DictSet(d, entries[i]), entries, i + 1)

\* CodeGenerator.generate, of a generator whose bytecode is bc: the
\* top-level code is appended to bc.code (current_code is bytecode.code),
\* each function's code is a new list
GenerateInto(bc, ir) ==
    LET pools == CollectResourcesInto(bc, ir)
    IN  [code |-> bc.code \o GenerateCode(ir.instructions, pools),
         constants |-> pools.constants,
         names |-> pools.names,
         functions |-> PutFunctions(bc.functions,
                                    GenerateFunctions(ir.functions, pools),
                                    1)]

\* CodeGenerator.generate on a fresh generator
Generate(ir) == GenerateInto(NewBytecode, ir)

(***************************************************************************)
(* The programs of the model, as the parser would hand them over: the      *)
(* statement lists of at most MaxStmts statements drawn from Statements,   *)
(* and the one-statement programs print(l op r); for every binary operator *)
(* and every pair of operand expressions.                                  *)
(***************************************************************************)
Statements ==
    << \* 1: x = 1;
       Assign("x", Literal(IntV(1))),
       \* 2: def f() { pass; }
       FuncDef("f", <<>>, Block(<<Pass>>)),
       \* 3: def g(a, b) { x = a - b; return x; }
       FuncDef("g", <<"a", "b">>,
               Block(<<Assign("x", Binary("-", Var("a"), Var("b"))),
                       Return(Var("x"))>>)),
       \* 4: y = 2 + f();
       Assign("y", Binary("+", Literal(IntV(2)), Call("f", <<>>))),
       \* 5: print(g(3, x), x);
       PrintStmt(<<Call("g", <<Literal(IntV(3)), Var("x")>>), Var("x")>>),
       \* 6: if (x < 2) { print(1); } else { print(-x); }
       If(Binary("<", Var("x"), Literal(IntV(2))),
          Block(<<PrintStmt(<<Literal(IntV(1))>>)>>),
          Block(<<PrintStmt(<<Unary("-", Var("x"))>>)>>)),
       \* 7: for (i in [1, 2]) { pass; }
       For("i", ListLiteral(<<Literal(IntV(1)), Literal(IntV(2))>>),
           Block(<<Pass>>)),
       \* 8: def k() { def h() { return 7; } y = 5; }
       FuncDef("k", <<>>,
               Block(<<FuncDef("h", <<>>,
                               Block(<<Return(Literal(IntV(7)))>>)),
                       Assign("y", Literal(IntV(5)))>>)),
       \* 9: k();
       ExprStmt(Call("k", <<>>)),
       \* 10: x = h();
       Assign("x", Call("h", <<>>)),
       \* 11: def d(a, a, b) { return [a, b, x]; }
       FuncDef("d", <<"a", "a", "b">>,
               Block(<<Return(ListLiteral(<<Var("a"), Var("b"),
                                             Var("x")>>))>>)),
       \* 12: print(d(4, 5));
       PrintStmt(<<Call("d", <<Literal(IntV(4)), Literal(IntV(5))>>)>>),
       \* 13: while (x < 2) { x = x + 1; }
       While(Binary("<", Var("x"), Literal(IntV(2))),
             Block(<<Assign("x", Binary("+", Var("x"),
                                        Literal(IntV(1))))>>)),
       \* 14: if (1 < 2) { print(1); } else { print(2); }
       If(Binary("<", Literal(IntV(1)), Literal(IntV(2))),
          Block(<<PrintStmt(<<Literal(IntV(1))>>)>>),
          Block(<<PrintStmt(<<Literal(IntV(2))>>)>>)),
       \* 15: if (2 < 1) { print(1); } else { print(2); }
       If(Binary("<", Literal(IntV(2)), Literal(IntV(1))),
          Block(<<PrintStmt(<<Literal(IntV(1))>>)>>),
          Block(<<PrintStmt(<<Literal(IntV(2))>>)>>)),
       \* 16: def r(n) { if (n < 1) { return 0; } t = r(n - 1);
       \*                return n + t; }
       FuncDef("r", <<"n">>,
               Block(<<If(Binary("<", Var("n"), Literal(IntV(1))),
                          Block(<<Return(Literal(IntV(0)))>>), NoBlock),
                       Assign("t", Call("r", <<Binary("-", Var("n"),
                                                      Literal(IntV(1)))>>)),
                       Return(Binary("+", Var("n"), Var("t")))>>)),
       \* 17: print(r(2));
       PrintStmt(<<Call("r", <<Literal(IntV(2))>>)>>),
       \* 18: if (x < 2) { def q(a) { while (a < 1) { a = a + 1; }
       \*                             return a; } }
       If(Binary("<", Var("x"), Literal(IntV(2))),
          Block(<<FuncDef("q", <<"a">>,
                          Block(<<While(Binary("<", Var("a"),
                                               Literal(IntV(1))),
                                        Block(<<Assign("a",
                                                 Binary("+", Var("a"),
                                                    Literal(IntV(1))))>>)),
                                  Return(Var("a"))>>))>>),
          NoBlock),
       \* 19: return 7;
       Return(Literal(IntV(7))),
       \* 20: def f() { return 7; }
       FuncDef("f", <<>>, Block(<<Return(Literal(IntV(7)))>>)),
       \* 21: print(f());
       PrintStmt(<<Call("f", <<>>)>>),
       \* 22: print(0 and f());
       PrintStmt(<<Binary("and", Literal(IntV(0)), Call("f", <<>>))>>),
       \* 23: print(1 or u());
       PrintStmt(<<Binary("or", Literal(IntV(1)), Call("u", <<>>))>>),
       \* 24: x = 7;
       Assign("x", Literal(IntV(7))),
       \* 25: print(7.0 / 2);
       PrintStmt(<<Binary("/", Literal(FloatV(7, 1)), Literal(IntV(2)))>>)
    >>

\* the statements that programs are made of: selections from Statements,
\* each program drawing its statements from one of them
StatementPools ==
    {1..13, {1, 2, 14, 15, 16, 17, 18}, {1, 2, 19, 20, 21, 22, 23}, {24, 25}}

\* the operand expressions of the operator statements: literals of every
\* type of the model, and negated literals (the grammar has no negative
\* literal: -7 is the unary minus applied to 7)
OperandExprs ==
    << Literal(IntV(0)), Literal(IntV(2)), Literal(IntV(7)),
       Unary("-", Literal(IntV(7))), Unary("-", Literal(IntV(2))),
       \* 0.0, 3.5, 2.0
       Literal(FloatV(0, 1)), Literal(FloatV(7, 2)), Literal(FloatV(2, 1)),
       Literal(BoolV(TRUE)), Literal(NoneV),
       ListLiteral(<<Literal(IntV(1))>>) >>

\* the binary operators of the grammar
BinaryOperators ==
    <<"+", "-", "*", "/", "%", "==", "!=", "<", ">", "<=", ">=", "and",
      "or">>

NumOperatorStatements ==
    Len(BinaryOperators) * Len(OperandExprs) * Len(OperandExprs)

\* the n-th operator statement, print(l op r); for an operator and two
\* operand expressions
OperatorStatement(n) ==
    LET k == Len(OperandExprs)
        op == BinaryOperators[((n - 1) \div (k * k)) + 1]
        l == OperandExprs[(((n - 1) \div k) % k) + 1]
        r == OperandExprs[((n - 1) % k) + 1]
    IN  PrintStmt(<<Binary(op, l, r)>>)

\* statement number n: one of Statements, or an operator statement
StatementAt(n) ==
    IF n <= Len(Statements) THEN Statements[n]
    ELSE OperatorStatement(n - Len(Statements))

\* the programs: the statement lists over each selection of Statements, and
\* each operator statement as a program of its own
Programs ==
    UNION {[1..n -> pool] : n \in 0..MaxStmts, pool \in StatementPools}
      \cup {<<Len(Statements) + n>> : n \in 1..NumOperatorStatements}

\* the AST of a program given as the list of its statements' numbers
AstOf(p) == Program([i \in 1..Len(p) |-> StatementAt(p[i])])

\* compiler.compile_and_run: analyzer.analyze(ast), then codegen.generate(ir)
Compile(p) == Generate(Analyze(AstOf(p)))

(***************************************************************************)
(* The virtual machine (vm.py).                                            *)
(***************************************************************************)
VARIABLES
    prog,          \* the program being run: its statements' numbers
    bytecode,      \* VM.bytecode
    stack,         \* VM.stack
    heap,          \* the dict objects that VM.variables has referred to and
                   \* that are still referenced: heap[r] is dict number r
    variables,     \* VM.variables: a reference into heap
    functions,     \* VM.functions: name -> FunctionObject
    pc,            \* VM.pc
    code,          \* VM.code
    halted,        \* VM.halted
    return_value,  \* VM.return_value
    frames,        \* the active FunctionObject.call invocations, outermost
                   \* first: the locals old_pc .. old_vars of each, and under
                   \* g the VM's state when its CALL_FUNCTION was dispatched
    status,        \* "running", "done" (execute returned) or "error"
    error,         \* the exception that ended execute, "" if none
    output,        \* the records written by print, in order
    steps,         \* instructions dispatched so far
    defined,       \* the names whose DEF_FUNCTION has executed in this run
    last           \* the step taken last

vars ==
    <<prog, bytecode, stack, heap, variables, functions, pc, code, halted,
      return_value, frames, status, error, output, steps, defined, last>>

EmptyDict == [n \in {} |-> NoneV]

\* dict[name] = value
DictPut(dict, name, value) ==
    [n \in DOMAIN dict \cup {name} |-> IF n = name THEN value ELSE dict[n]]

\* what a step records about itself
Event(op) ==
    [op |-> op, pc |-> pc, name |-> "", args |-> <<>>, env |-> EmptyDict]

\* a VM that installs every compiled function when it is constructed
HoistedFunctions(bc) ==
    [n \in {bc.functions[i].name : i \in 1..Len(bc.functions)} |->
       LET entry == DictGet(bc.functions, n)
       IN  [name |-> entry.name, code |-> entry.code, params |-> entry.params]]

\* VM.__init__: self.functions = {}
InitialFunctions(bc) == [n \in {} |-> [name |-> "", code |-> <<>>,
                                        params |-> <<>>]]

\* VM(bytecode), and execute() up to its loop
Init ==
    /\ prog \in Programs
    /\ bytecode = Compile(prog)
    /\ stack = <<>>
    /\ heap = <<EmptyDict>>
    /\ variables = 1
    /\ functions = InitialFunctions(bytecode)
    /\ pc = 0
    /\ code = bytecode.code
    /\ halted = FALSE
    /\ return_value = NoneV
    /\ frames = <<>>
    /\ status = "running"
    /\ error = ""
    /\ output = <<>>
    /\ steps = 0
    /\ defined = {}
    /\ last = Event("start")

\* a loop that goes on to the end of the code whether or not a
\* RETURN_VALUE has executed
InLoopToTheEnd == pc < Len(code)

\* the loop condition of execute and of FunctionObject.call
InLoop == pc < Len(code) /\ ~halted

\* "opcode = self.code[self.pc]" is about to run and reads this opcode
Dispatch(op) ==
    /\ status = "running"
    /\ steps < MaxSteps
    /\ InLoop
    /\ code[pc + 1] = OPCODES(op)

\* self.code[self.pc] for the n-th operand word is inside the code
HasOperands(n) == pc + n < Len(code)

\* the n-th operand word of the instruction at pc
Operand(n) == code[pc + n + 1]

\* an instruction whose exception is caught and dropped: the error is noted
\* and the loop goes on with the next word
FailAndGoOn(e, event) ==
    /\ error' = e
    /\ pc' = pc + 1
    /\ steps' = steps + 1
    /\ last' = event
    /\ UNCHANGED <<prog, bytecode, stack, heap, variables, functions, status,
                   code, halted, return_value, frames, output, defined>>

\* an exception leaves _execute_instruction: it propagates through every
\* FunctionObject.call and out of execute.  What the VM object holds
\* afterwards is not observed by anything and is left as it was.
Fail(e, event) ==
    /\ status' = "error"
    /\ error' = e
    /\ steps' = steps + 1
    /\ last' = event
    /\ UNCHANGED <<prog, bytecode, stack, heap, variables, functions, pc,
                   code, halted, return_value, frames, output, defined>>

\* the instruction completed
Done(event) ==
    /\ steps' = steps + 1
    /\ last' = event
    /\ UNCHANGED <<prog, bytecode, status, error>>

\* the top n values of the stack in the order they are popped, as
\* args.append would collect them
TopValuesAsPopped(n) ==
    [i \in 1..n |-> stack[Len(stack) - i + 1]]

\* the top n values of the stack popped one by one with args.insert(0, ..):
\* in the order they were pushed
TopValues(n) == SubSeq(stack, Len(stack) - n + 1, Len(stack))

\* a stack from which the instruction pops nothing
BelowKeepsAll(n) == stack

\* the stack without its top n values
Below(n) == SubSeq(stack, 1, Len(stack) - n)

\* vm.py 39-42
LoadConst ==
    /\ Dispatch("LOAD_CONST")
    /\ IF ~HasOperands(1) \/ Operand(1) >= Len(bytecode.constants)
       THEN Fail("IndexError", Event("LOAD_CONST"))
       ELSE /\ stack' = Append(stack, bytecode.constants[Operand(1) + 1])
            /\ pc' = pc + 2
            /\ Done(Event("LOAD_CONST"))
            /\ UNCHANGED <<heap, variables, functions, code, halted,
                           return_value, frames, output, defined>>

\* vm.py 44-51
Load ==
    /\ Dispatch("LOAD")
    /\ IF ~HasOperands(1) \/ Operand(1) >= Len(bytecode.names)
       THEN Fail("IndexError", Event("LOAD"))
       ELSE LET var_name == bytecode.names[Operand(1) + 1]
                event == [Event("LOAD") EXCEPT !.name = var_name]
            IN  IF var_name \notin DOMAIN heap[variables]
                THEN Fail("UndefinedVariable", event)
                ELSE /\ stack' = Append(stack, heap[variables][var_name])
                     /\ pc' = pc + 2
                     /\ Done(event)
                     /\ UNCHANGED <<heap, variables, functions, code, halted,
                                    return_value, frames, output, defined>>

\* vm.py 53-58
Store ==
    /\ Dispatch("STORE")
    /\ IF \/ ~HasOperands(1)
          \/ Operand(1) >= Len(bytecode.names)
          \/ Len(stack) = 0
       THEN Fail("IndexError", Event("STORE"))
       ELSE LET var_name == bytecode.names[Operand(1) + 1]
            IN  /\ heap' = [heap EXCEPT ![variables] =
                              DictPut(@, var_name, stack[Len(stack)])]
                /\ stack' = Below(1)
                /\ pc' = pc + 2
                /\ Done([Event("STORE") EXCEPT !.name = var_name])
                /\ UNCHANGED <<variables, functions, code, halted,
                               return_value, frames, output, defined>>

\* vm.py 60-61
Pop ==
    /\ Dispatch("POP")
    /\ IF Len(stack) = 0
       THEN Fail("IndexError", Event("POP"))
       ELSE /\ stack' = Below(1)
            /\ pc' = pc + 1
            /\ Done(Event("POP"))
            /\ UNCHANGED <<heap, variables, functions, code, halted,
                           return_value, frames, output, defined>>

BinaryOps ==
    {"ADD", "SUB", "MUL", "DIV", "MOD", "EQ", "NEQ", "LT", "GT", "LE", "GE",
     "AND", "OR"}

\* a binary instruction that pops its left operand first
PoppedLeftFirst ==
    [left |-> stack[Len(stack)], right |-> stack[Len(stack) - 1]]

\* "right = self.stack.pop(); left = self.stack.pop()" of every binary
\* instruction: the right operand is the top of the stack, the left one is
\* below it
PoppedOperands ==
    [right |-> stack[Len(stack)], left |-> stack[Len(stack) - 1]]

RightOperand == PoppedOperands.right
LeftOperand == PoppedOperands.left

\* vm.py 63-89 and 103-141: right is popped first, then left
BinaryOp ==
    \E op \in BinaryOps :
        /\ Dispatch(op)
        /\ IF Len(stack) < 2
           THEN Fail("IndexError", Event(op))
           ELSE LET right == PoppedOperands.right
                    left == PoppedOperands.left
                    r == BinaryResult(op, left, right)
                IN  IF ~r.ok
                    THEN Fail(r.err, Event(op))
                    ELSE /\ stack' = Append(Below(2), r.val)
                         /\ pc' = pc + 1
                         /\ Done(Event(op))
                         /\ UNCHANGED <<heap, variables, functions, code,
                                        halted, return_value, frames, output,
                                        defined>>

UnaryOps == {"NEGATE", "POS", "NOT"}

\* vm.py 91-101
UnaryOp ==
    \E op \in UnaryOps :
        /\ Dispatch(op)
        /\ IF Len(stack) = 0
           THEN Fail("IndexError", Event(op))
           ELSE LET r == UnaryResult(op, stack[Len(stack)])
                IN  IF ~r.ok
                    THEN Fail(r.err, Event(op))
                    ELSE /\ stack' = Append(Below(1), r.val)
                         /\ pc' = pc + 1
                         /\ Done(Event(op))
                         /\ UNCHANGED <<heap, variables, functions, code,
                                        halted, return_value, frames, output,
                                        defined>>

\* vm.py 143-145
Jump ==
    /\ Dispatch("JUMP")
    /\ IF ~HasOperands(1)
       THEN Fail("IndexError", Event("JUMP"))
       ELSE /\ pc' = Operand(1)
            /\ Done(Event("JUMP"))
            /\ UNCHANGED <<stack, heap, variables, functions, code, halted,
                           return_value, frames, output, defined>>

\* vm.py 147-152
JumpIfFalse ==
    /\ Dispatch("JUMP_IF_FALSE")
    /\ IF ~HasOperands(1) \/ Len(stack) = 0
       THEN Fail("IndexError", Event("JUMP_IF_FALSE"))
       ELSE LET target == Operand(1)
                condition == stack[Len(stack)]
            IN  /\ stack' = Below(1)
                /\ pc' = IF ~Truthy(condition) THEN target ELSE pc + 2
                /\ Done([Event("JUMP_IF_FALSE")
                           EXCEPT !.args = <<condition>>])
                /\ UNCHANGED <<heap, variables, functions, code, halted,
                               return_value, frames, output, defined>>

\* vm.py 154-160
PrintArgs ==
    /\ Dispatch("PRINT")
    /\ IF ~HasOperands(1) \/ Len(stack) < Operand(1)
       THEN Fail("IndexError", Event("PRINT"))
       ELSE LET num_args == Operand(1)
            IN  /\ output' = Append(output, TopValues(num_args))
                /\ stack' = Below(num_args)
                /\ pc' = pc + 2
                /\ Done([Event("PRINT") EXCEPT !.args = TopValues(num_args)])
                /\ UNCHANGED <<heap, variables, functions, code, halted,
                               return_value, frames, defined>>

\* FunctionObject(func_name, func_code, func_params, self.bytecode)
FunctionObject(entry) ==
    [name |-> entry.name, code |-> entry.code, params |-> entry.params]

\* "vm.variables = old_vars" without the copy: the callee works on the
\* caller's dict
AliasVariables(h, ref) == [heap |-> h, ref |-> ref]

\* "vm.variables = old_vars.copy()": a new dict with the entries of dict
\* number ref; the result is the heap and the reference to the copy
CopyVariables(h, ref) == [heap |-> Append(h, h[ref]), ref |-> Len(h) + 1]

\* the loop "for idx, param in enumerate(self.params)" of call, from the
\* idx-th parameter (1-based) on
RECURSIVE BindParams(_, _, _, _)
BindParams(dict, params, args, idx) ==
    IF idx > Len(params) THEN dict
    ELSE BindParams(DictPut(dict, params[idx],
                            IF idx <= Len(args) THEN args[idx] ELSE NoneV),
                    params, args, idx + 1)

\* the VM's state at the dispatch of a CALL_FUNCTION, kept with the call
CallSite ==
    [pc |-> pc, code |-> code, halted |-> halted,
     return_value |-> return_value, env |-> heap[variables],
     functions |-> functions, stack |-> stack]

\* a call that keeps the caller's state in one place of the VM instead of
\* in the locals of the invocation: the state saved by the call before is
\* overwritten
SavedInOneSlot(frame) == <<frame>>

\* FunctionObject.call 237-242: old_pc .. old_vars are locals of this
\* invocation of call, which runs inside the invocations that have not
\* returned
PushFrame(frame) == Append(frames, frame)

\* vm.py 162-181 and FunctionObject.call 237-254: up to the callee's loop
CallFunction ==
    /\ Dispatch("CALL_FUNCTION")
    /\ IF ~HasOperands(2) \/ Operand(1) >= Len(bytecode.names)
       THEN Fail("IndexError", Event("CALL_FUNCTION"))
       ELSE LET func_name == bytecode.names[Operand(1) + 1]
                num_args == Operand(2)
                event == [Event("CALL_FUNCTION") EXCEPT !.name = func_name]
            IN  IF func_name \notin DOMAIN functions
                THEN Fail("UndefinedFunction", event)
                ELSE IF Len(stack) < num_args
                THEN Fail("IndexError", event)
                ELSE LET func_obj == functions[func_name]
                         args == TopValues(num_args)
                         new == CopyVariables(heap, variables)
                     IN  /\ Len(frames) < MaxDepth
                         /\ frames' = PushFrame(
                              [old_pc |-> pc + 3,
                               old_code |-> code,
                               old_halted |-> halted,
                               old_return |-> return_value,
                               old_vars |-> variables,
                               func |-> func_obj,
                               g |-> CallSite])
                         /\ stack' = Below(num_args)
                         /\ pc' = 0
                         /\ code' = func_obj.code
                         /\ halted' = FALSE
                         /\ return_value' = NoneV
                         /\ heap' = [new.heap EXCEPT ![new.ref] =
                                       BindParams(@, func_obj.params, args, 1)]
                         /\ variables' = new.ref
                         /\ Done([event EXCEPT !.args = args])
                         /\ UNCHANGED <<functions, output, defined>>

\* a restore that leaves out "vm.halted = old_halted"
RestoredStateStillHalted(frame) ==
    [pc |-> frame.old_pc, code |-> frame.old_code,
     halted |-> halted, return_value |-> frame.old_return,
     variables |-> frame.old_vars]

\* "Restore VM state" of FunctionObject.call: what pc, code, halted,
\* return_value and variables become from the invocation's locals
RestoredState(frame) ==
    [pc |-> frame.old_pc, code |-> frame.old_code,
     halted |-> frame.old_halted, return_value |-> frame.old_return,
     variables |-> frame.old_vars]

\* FunctionObject.call 256-269 and vm.py 179: the callee's loop has ended;
\* the caller's state is restored and the result pushed.  The callee's dict
\* is no longer referenced.
FunctionReturn ==
    /\ status = "running"
    /\ steps < MaxSteps
    /\ Len(frames) > 0
    /\ ~InLoop
    /\ LET frame == frames[Len(frames)]
           result == return_value
           old == RestoredState(frame)
       IN  /\ pc' = old.pc
           /\ code' = old.code
           /\ halted' = old.halted
           /\ return_value' = old.return_value
           /\ variables' = old.variables
           /\ heap' = SubSeq(heap, 1, old.variables)
           /\ stack' = Append(stack, result)
           /\ frames' = SubSeq(frames, 1, Len(frames) - 1)
           /\ Done([Event("return") EXCEPT !.name = frame.func.name,
                                           !.args = <<result>>,
                                           !.env = heap[variables]])
           /\ UNCHANGED <<functions, output, defined>>

\* vm.py 183-185
ReturnValue ==
    /\ Dispatch("RETURN_VALUE")
    /\ return_value' = IF Len(stack) > 0 THEN stack[Len(stack)] ELSE NoneV
    /\ stack' = IF Len(stack) > 0 THEN Below(1) ELSE stack
    /\ halted' = TRUE
    /\ pc' = pc + 1
    /\ Done(Event("RETURN_VALUE"))
    /\ UNCHANGED <<heap, variables, functions, code, frames, output, defined>>

\* vm.py 187-188
Nop ==
    /\ Dispatch("NOP")
    /\ pc' = pc + 1
    /\ Done(Event("NOP"))
    /\ UNCHANGED <<stack, heap, variables, functions, code, halted,
                   return_value, frames, output, defined>>

\* vm.py 190-196
BuildList ==
    /\ Dispatch("BUILD_LIST")
    /\ IF ~HasOperands(1) \/ Len(stack) < Operand(1)
       THEN Fail("IndexError", Event("BUILD_LIST"))
       ELSE LET num_items == Operand(1)
            IN  /\ stack' = Append(Below(num_items),
                                   ListV(TopValues(num_items)))
                /\ pc' = pc + 2
                /\ Done(Event("BUILD_LIST"))
                /\ UNCHANGED <<heap, variables, functions, code, halted,
                               return_value, frames, output, defined>>

\* vm.py 198-199
SetupLoop ==
    /\ Dispatch("SETUP_LOOP")
    /\ pc' = pc + 1
    /\ Done(Event("SETUP_LOOP"))
    /\ UNCHANGED <<stack, heap, variables, functions, code, halted,
                   return_value, frames, output, defined>>

\* vm.py 201-210: the operands are read, the name is looked up, and nothing
\* else is done
ForIter ==
    /\ Dispatch("FOR_ITER")
    /\ IF ~HasOperands(2) \/ Operand(2) >= Len(bytecode.names)
       THEN Fail("IndexError", Event("FOR_ITER"))
       ELSE LET var_name == bytecode.names[Operand(2) + 1]
            IN  /\ pc' = pc + 3
                /\ Done([Event("FOR_ITER") EXCEPT !.name = var_name])
                /\ UNCHANGED <<stack, heap, variables, functions, code,
                               halted, return_value, frames, output, defined>>

\* vm.py 212-221
DefFunction ==
    /\ Dispatch("DEF_FUNCTION")
    /\ IF ~HasOperands(1) \/ Operand(1) >= Len(bytecode.names)
       THEN Fail("IndexError", Event("DEF_FUNCTION"))
       ELSE LET func_name == bytecode.names[Operand(1) + 1]
            IN  /\ functions' =
                     IF DictHas(bytecode.functions, func_name)
                     THEN DictPut(functions, func_name,
                            FunctionObject(DictGet(bytecode.functions,
                                                   func_name)))
                     ELSE functions
                /\ defined' = defined \cup {func_name}
                /\ pc' = pc + 2
                /\ Done([Event("DEF_FUNCTION") EXCEPT !.name = func_name])
                /\ UNCHANGED <<stack, heap, variables, code, halted,
                               return_value, frames, output>>

\* the opcodes _execute_instruction has a branch for
KnownOpcodes == {OPCODES(op) : op \in OpcodeNames \ {"LABEL"}}

\* vm.py 223-224
UnknownOpcode ==
    /\ status = "running"
    /\ steps < MaxSteps
    /\ InLoop
    /\ code[pc + 1] \notin KnownOpcodes
    /\ Fail("UnknownOpcode", Event("unknown"))

\* vm.py 28-31: the loop of execute has ended and execute returns
\* self.return_value
ExecuteReturn ==
    /\ status = "running"
    /\ steps < MaxSteps
    /\ Len(frames) = 0
    /\ ~InLoop
    /\ status' = "done"
    /\ steps' = steps + 1
    /\ last' = [Event("done") EXCEPT !.args = <<return_value>>]
    /\ UNCHANGED <<prog, bytecode, stack, heap, variables, functions, pc,
                   code, halted, return_value, frames, error, output,
                   defined>>

Next ==
    \/ LoadConst
    \/ Load
    \/ Store
    \/ Pop
    \/ BinaryOp
    \/ UnaryOp
    \/ Jump
    \/ JumpIfFalse
    \/ PrintArgs
    \/ CallFunction
    \/ FunctionReturn
    \/ ReturnValue
    \/ Nop
    \/ BuildList
    \/ SetupLoop
    \/ ForIter
    \/ DefFunction
    \/ UnknownOpcode
    \/ ExecuteReturn

Spec == Init /\ [][Next]_vars

(***************************************************************************)
(* What the claims speak of.                                               *)
(***************************************************************************)
\* the IR and the pools of the program being run
ProgramIR == Analyze(AstOf(prog))
ProgramPools == CollectResources(ProgramIR)

\* the instruction sequences of the IR: the top-level one and each function's
IRSequences ==
    {ProgramIR.instructions}
      \cup {ProgramIR.functions[i].instrs : i \in 1..Len(ProgramIR.functions)}

\* the IR sequence the VM is executing: the top-level one outside any call,
\* else the body of the function called last
CurrentIR ==
    IF Len(frames) = 0 THEN ProgramIR.instructions
    ELSE DictGet(ProgramIR.functions, frames[Len(frames)].func.name).instrs

\* where the words of instruction i of a sequence start in its emitted code:
\* the number of words emitted for the instructions before it
EmittedOffset(instrs, i) ==
    Len(EmitAll(SubSeq(instrs, 1, i - 1), 1, LabelPositions(instrs),
                ProgramPools))

\* the position of the LABEL instruction that defines a label
LabelIndex(instrs, label) ==
    CHOOSE i \in 1..Len(instrs) :
        instrs[i].op = "LABEL" /\ instrs[i].label = label

\* a FunctionObject.call is about to restore the caller and return
Returning ==
    /\ status = "running"
    /\ steps < MaxSteps
    /\ Len(frames) > 0
    /\ ~InLoop

\* the invocation that is executing
TopFrame == frames[Len(frames)]

\* C1: label resolution.  Whenever the VM takes a JUMP or JUMP_IF_FALSE that
\* was emitted for an IR jump to a label, the program counter lands on the
\* first word emitted for the instruction that follows the label (the length
\* of the code when the label is last).
C1_JumpLandsAfterLabel ==
    [][\A j \in 1..Len(CurrentIR) :
          ( /\ status = "running" /\ InLoop
            /\ CurrentIR[j].op \in {"JUMP", "JUMP_IF_FALSE"}
            /\ pc = EmittedOffset(CurrentIR, j)
            /\ status' = "running"
            /\ \/ last'.op = "JUMP"
               \/ last'.op = "JUMP_IF_FALSE" /\ ~Truthy(last'.args[1]) )
          => pc' = EmittedOffset(CurrentIR,
                                 LabelIndex(CurrentIR, CurrentIR[j].label))
      ]_vars

\* the operand counts of the published instruction set
PublishedArity(op) ==
    CASE op \in {"LOAD_CONST", "LOAD", "STORE", "JUMP", "JUMP_IF_FALSE",
                 "PRINT", "BUILD_LIST", "DEF_FUNCTION"} -> 1
      [] op \in {"CALL_FUNCTION", "FOR_ITER"} -> 2
      [] OTHER -> 0

\* C2: the sizing pass and the emission pass agree.  For every instruction
\* of every sequence of the program the emission pass appends as many words
\* as the sizing pass counts, one plus the published operand count for an
\* opcode and none for a LABEL, and the final sizing offset is the length of
\* the emitted code.
C2_SizingMatchesEmission ==
    \A instrs \in IRSequences :
        /\ \A i \in 1..Len(instrs) :
              LET n == Len(EmitInstruction(instrs[i], LabelPositions(instrs),
                                           ProgramPools))
              IN  /\ n = SizeOf(instrs[i])
                  /\ instrs[i].op = "LABEL" => n = 0
                  /\ instrs[i].op # "LABEL" =>
                       n = 1 + PublishedArity(instrs[i].op)
        /\ CodePos(instrs, Len(instrs) + 1)
             = Len(GenerateCode(instrs, ProgramPools))

\* C3: call isolation.  When a call returns, the caller's variable
\* environment is the one it had when CALL_FUNCTION was dispatched: the same
\* names with the same values.
C3_CallIsolation ==
    [][Returning => heap'[variables'] = TopFrame.g.env]_vars

\* a call has just returned whose callee had given a variable of the caller
\* another value
C3_Witness ==
    /\ last.op = "return"
    /\ \E n \in DOMAIN heap[variables] : last.env[n] # heap[variables][n]

\* C4: when a call returns, the function registry is the one of the moment
\* the call was dispatched: definitions executed inside the callee are gone.
C4_RegistryRestored ==
    [][Returning => functions' = TopFrame.g.functions]_vars

\* a CALL_FUNCTION of this name is about to be dispatched
Calling(name) ==
    /\ Dispatch("CALL_FUNCTION")
    /\ HasOperands(2)
    /\ Operand(1) < Len(bytecode.names)
    /\ bytecode.names[Operand(1) + 1] = name

\* C5: no hoisting.  The registry holds only names whose DEF_FUNCTION has
\* executed in this run; a call of a name dispatched before that raises
\* UndefinedFunction for the name, and a call dispatched after it does not.
C5_NoHoisting ==
    [][/\ DOMAIN functions \subseteq defined
       /\ DOMAIN functions' \subseteq defined'
       /\ \A i \in 1..Len(bytecode.names) :
            LET name == bytecode.names[i]
            IN  /\ (Calling(name) /\ name \notin defined)
                     => /\ status' = "error"
                        /\ error' = "UndefinedFunction"
                        /\ last'.name = name
                /\ (Calling(name) /\ name \in defined)
                     => error' # "UndefinedFunction"
      ]_vars

\* a call of a function that the program defines further on has raised
\* UndefinedFunction
C5_Witness ==
    /\ status = "error"
    /\ error = "UndefinedFunction"
    /\ last.op = "CALL_FUNCTION"
    /\ DictHas(bytecode.functions, last.name)
    /\ last.name \notin defined

\* the arguments a call was dispatched with, in the order they were pushed,
\* and the stack below them
ArgsOf(frame, num_args) ==
    SubSeq(frame.g.stack, Len(frame.g.stack) - num_args + 1,
           Len(frame.g.stack))
BelowArgs(frame, num_args) ==
    SubSeq(frame.g.stack, 1, Len(frame.g.stack) - num_args)

\* the argument count of the CALL_FUNCTION that made the call: its second
\* operand
NumArgs(frame) == frame.g.code[frame.g.pc + 3]

\* C6: stack balance, for the call expression.  When a call returns, the
\* operand stack is exactly one value deeper than it was before the first
\* argument of the call was evaluated.
C6_CallLeavesOneValue ==
    [][Returning =>
         Len(stack') = Len(BelowArgs(TopFrame, NumArgs(TopFrame))) + 1]_vars

\* C7: a FOR_ITER that completes either has jumped to its exit offset, or
\* has fallen through with the loop variable bound, in the current
\* environment, to an element of the list on top of the stack.
C7_ForIterAdvancesOrExits ==
    [][(Dispatch("FOR_ITER") /\ status' = "running") =>
         \/ pc' = Operand(1)
         \/ /\ pc' = pc + 3
            /\ Len(stack) > 0
            /\ last'.name \in DOMAIN heap'[variables']
            /\ \E i \in 1..Len(stack[Len(stack)].items) :
                 heap'[variables'][last'.name] = stack[Len(stack)].items[i]
      ]_vars

\* C8: a call whose body ran to its end, past the RETURN_VALUE the analyzer
\* appends to every body, pushes null as the call's result.
C8_ImplicitReturnIsNull ==
    [][(Returning /\ pc = Len(code)) => stack'[Len(stack')] = NoneV]_vars

\* C9: when a call returns, pc is just past the two operands of the
\* CALL_FUNCTION, and code, halted and return_value are those of its
\* dispatch; the callee's return value is on top of the stack and the caller
\* is running.  A RETURN_VALUE inside a call ends neither execute nor any
\* outer invocation.
C9_CallerRestored ==
    [][/\ Returning =>
            /\ pc' = TopFrame.g.pc + 3
            /\ code' = TopFrame.g.code
            /\ halted' = TopFrame.g.halted
            /\ ~halted'
            /\ return_value' = TopFrame.g.return_value
            /\ stack' = Append(stack, return_value)
            /\ frames' = SubSeq(frames, 1, Len(frames) - 1)
            /\ status' = "running"
       /\ (Dispatch("RETURN_VALUE") /\ Len(frames) > 0) =>
            /\ status' = "running"
            /\ frames' = frames
      ]_vars

\* a call has returned and the caller goes on after the CALL_FUNCTION
C9_Witness ==
    /\ last.op = "return"
    /\ status = "running"
    /\ InLoop
    /\ pc > 0

First(S) == CHOOSE i \in S : \A j \in S : i <= j
Latest(S) == CHOOSE i \in S : \A j \in S : j <= i

\* the environment a callee starts with, by the claim: the caller's, with
\* each parameter bound to the argument at its position, null if there is
\* none; a name that is several parameters is bound by its last position
\* if last_wins, else by its first
ExpectedEnv(caller, params, args, last_wins) ==
    LET names == {params[i] : i \in 1..Len(params)}
        Pos(n) == LET S == {j \in 1..Len(params) : params[j] = n}
                  IN  IF last_wins THEN Latest(S) ELSE First(S)
        Bound(n) == IF Pos(n) <= Len(args) THEN args[Pos(n)] ELSE NoneV
    IN  [n \in DOMAIN caller \cup names |->
           IF n \in names THEN Bound(n) ELSE caller[n]]

\* a call has just been entered
Entered == last.op = "CALL_FUNCTION" /\ status = "running"

\* C10 as stated: at entry to a callee its environment is the caller's
\* overridden by the parameter bindings, the i-th parameter bound to the
\* i-th argument and to null when there is none.
C10_ParamsBoundByPosition ==
    Entered =>
        /\ heap[variables] =
             ExpectedEnv(TopFrame.g.env, TopFrame.func.params,
                         ArgsOf(TopFrame, NumArgs(TopFrame)), FALSE)
        /\ \A i \in 1..Len(TopFrame.func.params) :
             heap[variables][TopFrame.func.params[i]] =
                IF i <= NumArgs(TopFrame)
                THEN ArgsOf(TopFrame, NumArgs(TopFrame))[i] ELSE NoneV

\* C10, amended: as stated, except that a name that occurs several times in
\* the parameter list is bound by its last occurrence.
C10_LastParamWins ==
    Entered =>
        heap[variables] =
            ExpectedEnv(TopFrame.g.env, TopFrame.func.params,
                        ArgsOf(TopFrame, NumArgs(TopFrame)), TRUE)

\* a callee has been entered with fewer arguments than parameters, over a
\* caller that has a variable which is not one of them
C10_Witness ==
    /\ Entered
    /\ NumArgs(TopFrame) < Len(TopFrame.func.params)
    /\ NumArgs(TopFrame) > 1
    /\ \E n \in DOMAIN TopFrame.g.env :
         /\ \A i \in 1..Len(TopFrame.func.params) : TopFrame.func.params[i] # n
         /\ heap[variables][n] = TopFrame.g.env[n]

\* C11: DIV.  With a right operand equal to zero the VM raises
\* DivisionByZero whatever the left operand is, and pushes nothing.
\* Otherwise, for two integers (bool counts as int) the result is the
\* integer q with q * right <= left < (q + 1) * right (mirrored for a
\* negative right): the quotient rounded toward negative infinity; for two
\* numbers of which one is a float, the result is the float left / right.
C11_DivSemantics ==
    [][(Dispatch("DIV") /\ Len(stack) >= 2) =>
         LET res == stack'[Len(stack')]
             rem == LeftOperand.v - res.v * RightOperand.v
         IN  /\ PyEq(RightOperand, IntV(0)) =>
                  /\ status' = "error"
                  /\ error' = "DivisionByZero"
                  /\ Len(stack') <= Len(stack)
                  /\ output' = output
             /\ (~PyEq(RightOperand, IntV(0))
                   /\ IsInt(LeftOperand) /\ IsInt(RightOperand)) =>
                  /\ status' = "running"
                  /\ Len(stack') = Len(stack) - 1
                  /\ res.t = "int"
                  /\ IF RightOperand.v > 0
                     THEN 0 <= rem /\ rem < RightOperand.v
                     ELSE RightOperand.v < rem /\ rem <= 0
             /\ (~PyEq(RightOperand, IntV(0))
                   /\ IsNum(LeftOperand) /\ IsNum(RightOperand)
                   /\ "float" \in {LeftOperand.t, RightOperand.t}) =>
                  /\ status' = "running"
                  /\ Len(stack') = Len(stack) - 1
                  /\ res.t = "float"
                  /\ res.v * LeftOperand.d * RightOperand.v
                       = res.d * LeftOperand.v * RightOperand.d
      ]_vars

\* -7 / 2 has been computed and is -4
C11_Witness ==
    /\ last.op = "DIV"
    /\ status = "running"
    /\ prog = <<Len(Statements) + 3 * Len(OperandExprs) * Len(OperandExprs)
                  + 3 * Len(OperandExprs) + 2>>
    /\ stack = <<IntV(0 - 4)>>

\* the pool index emitted for an instruction that carries a literal or a
\* name: the word after the opcode, and for FOR_ITER the one after the
\* exit offset
EmittedIndex(instr, instrs) ==
    LET words == EmitInstruction(instr, LabelPositions(instrs), ProgramPools)
    IN  IF instr.op = "FOR_ITER" THEN words[3] ELSE words[2]

\* C12: after the collection pass every literal operand of a LOAD_CONST is
\* in the constant pool and every name operand of a LOAD, STORE,
\* CALL_FUNCTION, DEF_FUNCTION or FOR_ITER is in the name pool, in every
\* sequence of the program, and the index emitted for the operand is inside
\* the pool and designates the operand itself.
C12_PoolLookupsSucceed ==
    \A instrs \in IRSequences :
        \A i \in 1..Len(instrs) :
            LET instr == instrs[i]
                idx == EmittedIndex(instr, instrs)
            IN  /\ instr.op = "LOAD_CONST" =>
                     /\ InConstants(ProgramPools.constants, instr.val)
                     /\ idx < Len(ProgramPools.constants)
                     /\ ProgramPools.constants[idx + 1] = instr.val
                /\ instr.op \in {"LOAD", "STORE", "CALL_FUNCTION",
                                 "DEF_FUNCTION", "FOR_ITER"} =>
                     /\ InNames(ProgramPools.names, instr.name)
                     /\ idx < Len(ProgramPools.names)
                     /\ ProgramPools.names[idx + 1] = instr.name

\* the bytecode of a second compilation of the program, by a new analyzer
\* and a new generator made after the first ones have run
SecondCompile ==
    GenerateInto(FreshBytecode(bytecode),
                 Visit(AstOf(prog), FreshAnalyzer(Analyze(AstOf(prog)))))

ExpectedError ==
    IF ~(status = "running" /\ steps < MaxSteps /\ InLoop) THEN ""
    ELSE IF code[pc + 1] \notin KnownOpcodes THEN "UnknownOpcode"
    ELSE IF \/ \E op \in BinaryOps : Dispatch(op) /\ Len(stack) < 2
            \/ \E op \in UnaryOps \cup {"POP"} :
                  Dispatch(op) /\ Len(stack) = 0
         THEN "IndexError"
    ELSE IF /\ Dispatch("LOAD") /\ HasOperands(1)
            /\ Operand(1) < Len(bytecode.names)
            /\ bytecode.names[Operand(1) + 1] \notin DOMAIN heap[variables]
         THEN "UndefinedVariable"
    ELSE IF \E i \in 1..Len(bytecode.names) :
               /\ Calling(bytecode.names[i])
               /\ bytecode.names[i] \notin DOMAIN functions
         THEN "UndefinedFunction"
    ELSE IF Dispatch("DIV") /\ PyEq(RightOperand, IntV(0))
         THEN "DivisionByZero"
    ELSE ""

\* C14: a runtime error aborts execute at the failing instruction.  An
\* instruction that must raise leaves the VM in error with that error, with
\* no output added and no call returned; and once in error nothing happens
\* any more: no instruction is dispatched, no output is produced, no call
\* returns, and execute does not yield a return value.
C14_ErrorsAbort ==
    [][/\ ExpectedError # "" =>
            /\ status' = "error"
            /\ error' = ExpectedError
            /\ output' = output
            /\ frames' = frames
       /\ status = "error" =>
            /\ status' = "error"
            /\ steps' = steps
            /\ output' = output
            /\ frames' = frames
            /\ pc' = pc
            /\ last'.op # "done"
       /\ status' = "done" => error' = ""
      ]_vars

\* an error was raised inside a function call, with instructions of the
\* callee and of the caller still to come
C14_Witness ==
    /\ status = "error"
    /\ Len(frames) > 0
    /\ pc < Len(code)
    /\ frames[1].old_pc < Len(frames[1].old_code)

\* the program is one operator statement, print(l op r);
IsOperatorProgram == Len(prog) = 1 /\ prog[1] > Len(Statements)

\* the value of an operand expression of an operator statement, by the
\* meaning of the source: a literal, a negated literal, a list of literals
OperandValue(expr) ==
    CASE expr.k = "Literal" -> expr.value
      [] expr.k = "Unary" ->
           IF expr.expr.value.t = "float"
           THEN FloatV(0 - expr.expr.value.v, expr.expr.value.d)
           ELSE IntV(0 - expr.expr.value.v)
      [] expr.k = "ListLiteral" ->
           ListV([i \in 1..Len(expr.items) |-> expr.items[i].value])

\* C15: operand order of the binary operators.  When a binary instruction
\* is dispatched the value of the left operand expression is the second
\* from the top of the stack and that of the right one is on top (l was
\* evaluated first, r second); the instruction replaces the two by one
\* result, and for integers the result of SUB, DIV, MOD, LT, GT, LE and GE
\* is left op right in source order.
C15_OperandsInSourceOrder ==
    [][\A op \in BinaryOps :
         (Dispatch(op) /\ Len(stack) >= 2) =>
           LET l == stack[Len(stack) - 1]
               r == stack[Len(stack)]
               res == stack'[Len(stack')]
               expr == StatementAt(prog[1]).args[1]
           IN  /\ IsOperatorProgram =>
                    /\ BinaryOpMap(expr.op) = op
                    /\ Len(stack) = 2
                    /\ PyEq(l, OperandValue(expr.left))
                    /\ PyEq(r, OperandValue(expr.right))
               /\ status' = "running" =>
                    stack' = Append(SubSeq(stack, 1, Len(stack) - 2), res)
               /\ (l.t = "int" /\ r.t = "int") =>
                    /\ op = "SUB" => res = IntV(l.v - r.v)
                    /\ (op = "DIV" /\ r.v # 0) =>
                          /\ res.t = "int"
                          /\ IF r.v > 0
                             THEN res.v * r.v <= l.v
                                    /\ l.v < (res.v + 1) * r.v
                             ELSE res.v * r.v >= l.v
                                    /\ l.v > (res.v + 1) * r.v
                    /\ (op = "MOD" /\ r.v # 0) =>
                          /\ res.t = "int"
                          /\ \E q \in (0 - Abs(l.v))..Abs(l.v) :
                                l.v = q * r.v + res.v
                          /\ IF r.v > 0 THEN 0 <= res.v /\ res.v < r.v
                             ELSE r.v < res.v /\ res.v <= 0
                    /\ op = "LT" => res = BoolV(l.v < r.v)
                    /\ op = "GT" => res = BoolV(l.v > r.v)
                    /\ op = "LE" => res = BoolV(l.v <= r.v)
                    /\ op = "GE" => res = BoolV(l.v >= r.v)
      ]_vars

\* 2 - 7 has been computed from the source 2 - 7 and is -5
C15_Witness ==
    /\ IsOperatorProgram
    /\ last.op = "SUB"
    /\ StatementAt(prog[1]).args[1].left = Literal(IntV(2))
    /\ StatementAt(prog[1]).args[1].right = Literal(IntV(7))
    /\ stack = <<IntV(0 - 5)>>

\* the instructions an expression lowers to, and those of a list of
\* expressions lowered one after the other from the i-th on
Lowered(expr) == Visit(expr, NewAnalyzer).instructions

RECURSIVE LoweredInOrder(_, _)
LoweredInOrder(exprs, i) ==
    IF i > Len(exprs) THEN <<>>
    ELSE Lowered(exprs[i]) \o LoweredInOrder(exprs, i + 1)

\* C16: print.  A print statement with k arguments lowers to the code of
\* its arguments from left to right followed by PRINT k; a PRINT k that
\* completes pops exactly k values and appends to the output one record
\* with these values in the order they were pushed, which is the order of
\* the arguments; and no other step changes the output, so records appear
\* in execution order.
C16_PrintInArgumentOrder ==
    [][/\ \A i \in 1..Len(prog) :
            LET stmt == StatementAt(prog[i])
            IN  stmt.k = "Print" =>
                  Lowered(stmt) = LoweredInOrder(stmt.args, 1)
                                    \o <<IRNum("PRINT", Len(stmt.args))>>
       /\ (Dispatch("PRINT") /\ status' = "running") =>
            LET k == code[pc + 2]
            IN  /\ Len(stack) >= k
                /\ stack' = SubSeq(stack, 1, Len(stack) - k)
                /\ output' = Append(output,
                                    [j \in 1..k |->
                                       stack[Len(stack) - k + j]])
       /\ ~Dispatch("PRINT") => output' = output
       /\ status' # "running" => output' = output
      ]_vars

\* x = 1; def g(a, b) { x = a - b; return x; } print(g(3, x), x); has run
\* and has printed one record, 2 1
C16_Witness ==
    /\ prog = <<1, 3, 5>>
    /\ status = "done"
    /\ output = << <<IntV(2), IntV(1)>> >>

(***************************************************************************)
(* C17: labels.                                                            *)
(***************************************************************************)
\* the instruction sequences of an IR in a row: the top-level one, then
\* the bodies of ir.functions in the order of the dict
SequencesOf(ir) ==
    <<ir.instructions>>
      \o [i \in 1..Len(ir.functions) |-> ir.functions[i].instrs]

\* the places <<s, i>> of the instructions of the sequences that have one of
\* the opcodes ops
PlacesOf(seqs, ops) ==
    UNION {{<<s, i>> : i \in {j \in 1..Len(seqs[s]) : seqs[s][j].op \in ops}} :
           s \in 1..Len(seqs)}

\* C17: in the IR of one analyze run no two LABEL instructions, of the same
\* or of different sequences, define the same label (so the labels that
\* new_label made are pairwise distinct and each label of the IR is defined
\* exactly once), and the label of every JUMP, JUMP_IF_FALSE and FOR_ITER is
\* defined by a LABEL instruction of the sequence the instruction is in,
\* top-level or function body, whatever the nesting of control flow and
\* function definitions.
C17_LabelsUniqueAndLocal ==
    steps = 0 =>
      LET seqs == SequencesOf(ProgramIR)
          definitions == PlacesOf(seqs, {"LABEL"})
          references == PlacesOf(seqs, {"JUMP", "JUMP_IF_FALSE", "FOR_ITER"})
      IN  /\ \A d \in definitions : \A e \in definitions :
                seqs[d[1]][d[2]].label = seqs[e[1]][e[2]].label => d = e
          /\ \A r \in references :
                Cardinality({d \in definitions :
                               /\ d[1] = r[1]
                               /\ seqs[d[1]][d[2]].label
                                    = seqs[r[1]][r[2]].label}) = 1

\* if (x < 2) { def q(a) { while ... } }  def r(n) { if ... } has been
\* analyzed: a function defined inside an if, a while and an if inside
\* function bodies, and labels referenced in all three sequences
C17_Witness ==
    /\ prog = <<18, 16>>
    /\ steps = 0
    /\ LET seqs == SequencesOf(ProgramIR)
           main == seqs[1]
       IN  /\ Len(seqs) = 3
           /\ \A s \in 1..3 :
                 \E r \in PlacesOf(seqs, {"JUMP", "JUMP_IF_FALSE"}) : r[1] = s
           /\ \E i \in 1..Len(main) : \E j \in 1..Len(main) :
                 \E m \in 1..Len(main) :
                    /\ i < j /\ j < m
                    /\ main[i].op = "JUMP_IF_FALSE"
                    /\ main[j].op = "DEF_FUNCTION"
                    /\ main[m].op = "LABEL"
                    /\ main[m].label = main[i].label

(***************************************************************************)
(* C18: the lowering of function definitions.                              *)
(***************************************************************************)
\* the visits of FuncDef nodes that visit(node) makes when the analyzer is
\* in state st, in the order they are made: each with the node and the
\* analyzer state at the call of visit_FuncDef.  The states are those of
\* visit_If, visit_While, visit_For and visit_FuncDef at their
\* self.visit(block) lines.
RECURSIVE FuncDefVisits(_, _), FuncDefVisitsFrom(_, _, _)
FuncDefVisits(node, st) ==
    CASE node.k \in {"Program", "Block"} ->
           FuncDefVisitsFrom(node.stmts, 1, st)
      [] node.k = "If" ->
           LET s0 == [st EXCEPT !.label_counter = @ + 2]
               s1 == Emit(Visit(node.cond, s0),
                          IRLabel("JUMP_IF_FALSE", NewLabel(st, 0)))
               s3 == Emit(Emit(Visit(node.then_block, s1),
                               IRLabel("JUMP", NewLabel(st, 1))),
                          IRLabel("LABEL", NewLabel(st, 0)))
           IN  FuncDefVisits(node.then_block, s1)
                 \o (IF node.else_block.k = "None" THEN <<>>
                     ELSE FuncDefVisits(node.else_block, s3))
      [] node.k = "While" ->
           LET s0 == [st EXCEPT !.label_counter = @ + 2]
               s2 == Emit(Visit(node.cond,
                                Emit(s0, IRLabel("LABEL", NewLabel(st, 0)))),
                          IRLabel("JUMP_IF_FALSE", NewLabel(st, 1)))
           IN  FuncDefVisits(node.body, s2)
      [] node.k = "For" ->
           LET s0 == Define([st EXCEPT !.label_counter = @ + 2], node.varname)
               s1 == Emit(Visit(node.iterable, s0), IRInstruction("SETUP_LOOP"))
               s3 == Emit(Emit(s1, IRLabel("LABEL", NewLabel(st, 0))),
                          [IRLabel("FOR_ITER", NewLabel(st, 1))
                             EXCEPT !.name = node.varname])
           IN  FuncDefVisits(node.body, s3)
      [] node.k = "FuncDef" ->
           <<[node |-> node, st |-> st]>>
             \o FuncDefVisits(node.body,
                              [DefineAll(PushScope(st), node.params)
                                 EXCEPT !.instructions = <<>>])
      [] OTHER -> <<>>

\* the same for the statements of a list from the i-th on, the list being
\* visited from state st
FuncDefVisitsFrom(nodes, i, st) ==
    IF i > Len(nodes) THEN <<>>
    ELSE FuncDefVisits(nodes[i], VisitAll(SubSeq(nodes, 1, i - 1), st))
           \o FuncDefVisitsFrom(nodes, i + 1, st)

\* the names of the functions defined by a FuncDef node and by the
\* definitions nested in it
DefinedUnder(node, st) ==
    LET visits == FuncDefVisits(node, st)
    IN  {visits[v].node.name : v \in 1..Len(visits)}

\* C18: for every function definition the analyzer visits, top-level, inside
\* control flow or inside another function's body: the current sequence
\* after the visit is the one before it with exactly one instruction added,
\* DEF_FUNCTION with the function's name; the function table holds under that
\* name the body's instructions, lowered into a sequence of their own,
\* followed by RETURN_VALUE; the entries of functions that the definition
\* does not define are as before; and the scope depth is as before.
C18_FuncDefLowering ==
    steps = 0 =>
      LET visits == FuncDefVisits(AstOf(prog), NewAnalyzer)
      IN  \A v \in 1..Len(visits) :
             LET node == visits[v].node
                 st == visits[v].st
                 after == Visit(node, st)
                 body == Visit(node.body,
                               [st EXCEPT !.instructions = <<>>]).instructions
             IN  /\ Len(after.instructions) = Len(st.instructions) + 1
                 /\ SubSeq(after.instructions, 1, Len(st.instructions))
                      = st.instructions
                 /\ after.instructions[Len(after.instructions)].op
                      = "DEF_FUNCTION"
                 /\ after.instructions[Len(after.instructions)].name
                      = node.name
                 /\ DictHas(after.functions, node.name)
                 /\ DictGet(after.functions, node.name).instrs
                      = Append(body, IRInstruction("RETURN_VALUE"))
                 /\ \A i \in 1..Len(st.functions) :
                       st.functions[i].name \notin DefinedUnder(node, st) =>
                         /\ DictHas(after.functions, st.functions[i].name)
                         /\ DictGet(after.functions, st.functions[i].name)
                              = st.functions[i]
                 /\ after.scope_level = st.scope_level
                 /\ Len(after.scopes) = Len(st.scopes)

\* x = 1; def k() { def h() { return 7; } y = 5; } has been analyzed: h
\* was visited inside the body of k, one scope deep and with an empty
\* current sequence, and the body of k is DEF_FUNCTION h, the assignment and
\* the return
C18_Witness ==
    /\ prog = <<1, 8>>
    /\ steps = 0
    /\ LET visits == FuncDefVisits(AstOf(prog), NewAnalyzer)
       IN  /\ Len(visits) = 2
           /\ visits[1].node.name = "k"
           /\ Len(visits[1].st.instructions) = 2
           /\ visits[2].node.name = "h"
           /\ visits[2].st.scope_level = 1
           /\ visits[2].st.instructions = <<>>
    /\ Len(DictGet(ProgramIR.functions, "k").instrs) = 4
    /\ DictGet(ProgramIR.functions, "k").instrs[1].op = "DEF_FUNCTION"
    /\ DictGet(ProgramIR.functions, "h").instrs[2].op = "RETURN_VALUE"
    /\ ProgramIR.instructions[3].op = "DEF_FUNCTION"
    /\ Len(ProgramIR.instructions) = 3

(***************************************************************************)
(* C19: conditional jumps, if/else and while.                              *)
(***************************************************************************)
\* the number of top-level instructions the statements before the i-th
\* lower to
LoweredBefore(i) ==
    Len(Lowered(Program([j \in 1..(i - 1) |-> StatementAt(prog[j])])))

\* where the parts of the i-th statement, an if or a while, start in the
\* top-level code: the numbers of instructions are those visit_If and
\* visit_While emit in order (condition, JUMP_IF_FALSE, block, JUMP,
\* and the LABEL instructions, which emit no code)
BranchOffsets(i) ==
    LET stmt == StatementAt(prog[i])
        instrs == ProgramIR.instructions
        first == LoweredBefore(i) + 1 + (IF stmt.k = "While" THEN 1 ELSE 0)
        test == first + Len(Lowered(stmt.cond))
        block == IF stmt.k = "While" THEN stmt.body ELSE stmt.then_block
        jump == test + 1 + Len(Lowered(block))
    IN  [start |-> EmittedOffset(instrs, first),
         test |-> EmittedOffset(instrs, test),
         block |-> EmittedOffset(instrs, test + 1),
         jump |-> EmittedOffset(instrs, jump),
         otherwise |-> EmittedOffset(instrs, jump + 1),
         next |-> EmittedOffset(instrs,
                                LoweredBefore(i) + 1 + Len(Lowered(stmt)))]

\* C19: a JUMP_IF_FALSE that completes pops exactly one value and continues
\* at its operand if the value is falsy and right after its operand if not.
\* Consequently, at top level: the test of an if/else continues at the start
\* of the then-branch iff the condition is truthy and at the start of the
\* else-branch otherwise, and the jump that ends the then-branch continues
\* at the statement after the if, so exactly one branch runs; the test of a
\* while continues at the start of the body iff the condition is truthy and
\* after the loop otherwise, and the jump that ends the body continues at
\* the evaluation of the condition.
C19_BranchOnCondition ==
    [][/\ (Dispatch("JUMP_IF_FALSE") /\ status' = "running") =>
            /\ Len(stack) >= 1
            /\ stack' = SubSeq(stack, 1, Len(stack) - 1)
            /\ pc' = IF Truthy(stack[Len(stack)]) THEN pc + 2
                     ELSE code[pc + 2]
       /\ (Len(frames) = 0 /\ status = "running" /\ InLoop
             /\ status' = "running" /\ steps' # steps) =>
            \A i \in 1..Len(prog) :
               LET stmt == StatementAt(prog[i])
                   at == BranchOffsets(i)
               IN  /\ (stmt.k = "If" /\ stmt.else_block.k # "None") =>
                         /\ pc = at.test =>
                              pc' = IF Truthy(stack[Len(stack)])
                                    THEN at.block ELSE at.otherwise
                         /\ pc = at.jump => pc' = at.next
                   /\ stmt.k = "While" =>
                         /\ pc = at.test =>
                              pc' = IF Truthy(stack[Len(stack)])
                                    THEN at.block ELSE at.next
                         /\ pc = at.jump => pc' = at.start
      ]_vars

(***************************************************************************)
(* C20: call frames under recursion.                                       *)
(***************************************************************************)
\* the dict of each active invocation, outermost first: execute's, which is
\* the old_vars of the first call, ..., and the running one's, which is
\* vm.variables
EnvRefs ==
    [k \in 1..(Len(frames) + 1) |->
       IF k <= Len(frames) THEN frames[k].old_vars ELSE variables]

\* C20: the active invocations form a stack.  A step leaves them as they
\* are, or is a CALL_FUNCTION that adds one on top, with the caller's pc,
\* code, return value and environment saved in it, or is a return that
\* removes the top one and resumes its caller, the invocation called last
\* among those that have not returned, with what was saved.  The
\* invocations below the top one are never changed.  Every active
\* invocation, also of the same function, has a dict of its own, and no
\* step changes the dict of an invocation other than the running one, so a
\* store is not seen by an invocation that was active before.
C20_FramesNested ==
    [][/\ \/ frames' = frames
          \/ /\ Dispatch("CALL_FUNCTION")
             /\ Len(frames') = Len(frames) + 1
             /\ SubSeq(frames', 1, Len(frames)) = frames
             /\ frames'[Len(frames')].old_pc = pc + 3
             /\ frames'[Len(frames')].old_code = code
             /\ frames'[Len(frames')].old_return = return_value
             /\ frames'[Len(frames')].old_vars = variables
             /\ \A k \in 1..(Len(frames) + 1) : variables' # EnvRefs[k]
             /\ pc' = 0
             /\ return_value' = NoneV
          \/ /\ Len(frames) > 0
             /\ ~InLoop
             /\ frames' = SubSeq(frames, 1, Len(frames) - 1)
             /\ pc' = frames[Len(frames)].old_pc
             /\ code' = frames[Len(frames)].old_code
             /\ return_value' = frames[Len(frames)].old_return
             /\ variables' = frames[Len(frames)].old_vars
       /\ \A j \in 1..(Len(frames) + 1) : \A k \in 1..(Len(frames) + 1) :
             j # k => EnvRefs[j] # EnvRefs[k]
       /\ \A k \in 1..Len(frames) :
             heap'[frames[k].old_vars] = heap[frames[k].old_vars]
      ]_vars

\* def r(n) { if (n < 1) { return 0; } t = r(n - 1); return n + t; }
\* print(r(2)); is running: r(0) has returned into r(1), which was called by
\* r(2), and r(1) has stored t = 0; r(2), active since before, has n = 2 and
\* no t
C20_Witness ==
    /\ prog = <<16, 17>>
    /\ status = "running"
    /\ Len(frames) = 2
    /\ frames[1].func.name = "r"
    /\ frames[2].func.name = "r"
    /\ last.op = "STORE"
    /\ heap[variables] = [n |-> IntV(1), t |-> IntV(0)]
    /\ heap[frames[2].old_vars] = [n |-> IntV(2)]
    /\ heap[frames[1].old_vars] = EmptyDict

(***************************************************************************)
(* C21: the run of execute.                                                *)
(***************************************************************************)
\* the program has a return statement outside every function definition,
\* at statement level or inside a block of an if, while or for
RECURSIVE HasReturnOutsideFunctions(_)
HasReturnOutsideFunctions(node) ==
    CASE node.k = "Return" -> TRUE
      [] node.k \in {"Program", "Block"} ->
           \E i \in 1..Len(node.stmts) :
              HasReturnOutsideFunctions(node.stmts[i])
      [] node.k = "If" ->
           \/ HasReturnOutsideFunctions(node.then_block)
           \/ HasReturnOutsideFunctions(node.else_block)
      [] node.k \in {"While", "For"} -> HasReturnOutsideFunctions(node.body)
      [] OTHER -> FALSE

\* C21: execute starts at offset 0 of the top-level code.  While it runs
\* outside every call, it dispatches the instruction at pc as long as pc is
\* inside the code and no RETURN_VALUE has executed at top level, and returns
\* as soon as one of the two is no longer so, without dispatching anything
\* more.  A top-level RETURN_VALUE pops the top of the stack, null if the
\* stack is empty, and that value is what execute returns; only a top-level
\* RETURN_VALUE halts the top level; and when the run ends without one,
\* and whenever the program has no return statement outside its functions,
\* execute returns null.
C21_TopLevelRun ==
    [][/\ steps = 0 => (pc = 0 /\ code = bytecode.code /\ Len(frames) = 0)
       /\ (Len(frames) = 0 /\ status = "running") =>
            /\ (pc < Len(code) /\ ~halted) =>
                  /\ status' # "done"
                  /\ last'.pc = pc
                  /\ last'.op # "done"
            /\ ~(pc < Len(code) /\ ~halted) =>
                  /\ status' = "done"
                  /\ last'.op = "done"
                  /\ last'.args = <<return_value>>
                  /\ UNCHANGED <<stack, heap, variables, functions, output,
                                 pc, halted, return_value>>
            /\ (pc < Len(code) /\ ~halted
                  /\ code[pc + 1] = OPCODES("RETURN_VALUE")) =>
                  /\ status' = "running"
                  /\ halted'
                  /\ Len(frames') = 0
                  /\ return_value' = IF Len(stack) > 0 THEN stack[Len(stack)]
                                     ELSE NoneV
                  /\ Len(stack) > 0 =>
                       stack' = SubSeq(stack, 1, Len(stack) - 1)
            /\ (~halted /\ halted' /\ Len(frames') = 0) =>
                  code[pc + 1] = OPCODES("RETURN_VALUE")
            /\ (status' = "done" /\ ~halted) => last'.args = <<NoneV>>
            /\ (status' = "done" /\ ~HasReturnOutsideFunctions(AstOf(prog)))
                  => last'.args = <<NoneV>>
      ]_vars

\* return 7; x = 1; has run: execute has returned 7 with the code of the
\* assignment still ahead of pc, and x was never stored
C21_Witness ==
    /\ prog = <<19, 1>>
    /\ status = "done"
    /\ last.op = "done"
    /\ last.args = <<IntV(7)>>
    /\ halted
    /\ pc < Len(code)
    /\ "x" \notin DOMAIN heap[variables]

(***************************************************************************)
(* C22: the pools.                                                         *)
(***************************************************************************)
\* the instructions of an IR as the collection pass scans them: the
\* top-level sequence, then the function bodies in the order of ir.functions
RECURSIVE Flattened(_, _)
Flattened(seqs, s) ==
    IF s > Len(seqs) THEN <<>> ELSE seqs[s] \o Flattened(seqs, s + 1)

IsConstantUse(instr) == instr.op = "LOAD_CONST"

IsNameUse(instr) ==
    instr.op \in {"LOAD", "STORE", "CALL_FUNCTION", "DEF_FUNCTION"}

\* the k-th smallest member of a set of numbers
KthOf(P, k) == CHOOSE p \in P : Cardinality({q \in P : q < p}) = k - 1

\* C22: in the bytecode that generate returns, no two entries of the
\* constant pool are equal (Python ==) and no two entries of the name pool
\* are equal; the entries of each pool are, in order, the literals and names
\* at their first occurrence in the scan of the top-level sequence followed
\* by the function bodies; and there is one constant pool and one name pool,
\* which the indices in the code of every function body refer to as those
\* in the top-level code do.
C22_PoolsDistinctOrderedShared ==
    steps = 0 =>
      LET seqs == SequencesOf(ProgramIR)
          scan == Flattened(seqs, 1)
          first_constants ==
            {p \in 1..Len(scan) :
               /\ IsConstantUse(scan[p])
               /\ \A q \in 1..(p - 1) :
                     IsConstantUse(scan[q]) => ~PyEq(scan[q].val, scan[p].val)}
          first_names ==
            {p \in 1..Len(scan) :
               /\ IsNameUse(scan[p])
               /\ \A q \in 1..(p - 1) :
                     IsNameUse(scan[q]) => scan[q].name # scan[p].name}
      IN  /\ \A i \in 1..Len(bytecode.constants) :
                \A j \in 1..Len(bytecode.constants) :
                   i # j => ~PyEq(bytecode.constants[i], bytecode.constants[j])
          /\ \A i \in 1..Len(bytecode.names) :
                \A j \in 1..Len(bytecode.names) :
                   i # j => bytecode.names[i] # bytecode.names[j]
          /\ Len(bytecode.constants) = Cardinality(first_constants)
          /\ \A k \in 1..Len(bytecode.constants) :
                bytecode.constants[k] = scan[KthOf(first_constants, k)].val
          /\ Len(bytecode.names) = Cardinality(first_names)
          /\ \A k \in 1..Len(bytecode.names) :
                bytecode.names[k] = scan[KthOf(first_names, k)].name
          /\ DOMAIN bytecode = {"code", "constants", "names", "functions"}
          /\ \A f \in 1..Len(bytecode.functions) :
                /\ DOMAIN bytecode.functions[f] = {"name", "code", "params"}
                /\ LET instrs == DictGet(ProgramIR.functions,
                                         bytecode.functions[f].name).instrs
                       words == bytecode.functions[f].code
                   IN  \A i \in 1..Len(instrs) :
                          LET at == EmittedOffset(instrs, i)
                          IN  /\ IsConstantUse(instrs[i]) =>
                                   /\ words[at + 2] < Len(bytecode.constants)
                                   /\ PyEq(bytecode.constants[words[at + 2] + 1],
                                           instrs[i].val)
                              /\ IsNameUse(instrs[i]) =>
                                   /\ words[at + 2] < Len(bytecode.names)
                                   /\ bytecode.names[words[at + 2] + 1]
                                        = instrs[i].name

\* x = 1; def r(n) { if (n < 1) { return 0; } ... n - 1 ... } print(r(2));
\* has been compiled: the body's 1 was in the pool already, its 0 comes after
\* the 2 of the print statement that follows it in the source, and the
\* body's names come after the top-level ones
C22_Witness ==
    /\ prog = <<1, 16, 17>>
    /\ steps = 0
    /\ bytecode.constants = <<IntV(1), IntV(2), IntV(0)>>
    /\ bytecode.names = <<"x", "r", "n", "t">>
    /\ Len(bytecode.functions) = 1

(***************************************************************************)
(* C23: two definitions of one name.                                       *)
(***************************************************************************)
\* the top-level code has no jump: its instructions run in the order they
\* are emitted, each at most once
StraightLine ==
    \A j \in 1..Len(ProgramIR.instructions) :
       ProgramIR.instructions[j].op \notin {"JUMP", "JUMP_IF_FALSE"}

\* the i-th statement, a function definition: where its DEF_FUNCTION is in
\* the top-level code, and the code of its body, generated from the
\* instructions visit_FuncDef recorded for it when it was lowered
DefinitionAt(i) ==
    LET stmt == StatementAt(prog[i])
        before == Visit(Program([j \in 1..(i - 1) |-> StatementAt(prog[j])]),
                        NewAnalyzer)
        recorded == DictGet(Visit(stmt, before).functions, stmt.name)
    IN  [offset |-> EmittedOffset(ProgramIR.instructions,
                                  Len(before.instructions) + 1),
         code |-> GenerateCode(recorded.instrs, ProgramPools)]

\* the top-level statements that define a name, and whether these are all
\* the definitions of the name in the program
DefinitionsOf(name) ==
    {i \in 1..Len(prog) :
       /\ StatementAt(prog[i]).k = "FuncDef"
       /\ StatementAt(prog[i]).name = name}

DefinedAtTopLevelOnly(name) ==
    LET visits == FuncDefVisits(AstOf(prog), NewAnalyzer)
    IN  Cardinality({v \in 1..Len(visits) : visits[v].node.name = name})
          = Cardinality(DefinitionsOf(name))

\* C23: when a top-level call of a name is dispatched in a program whose
\* top-level code runs straight through and which defines the name in
\* top-level statements, the code the callee runs is the code of the body of
\* the definition of that name whose DEF_FUNCTION was executed last before
\* the call: the first definition's body after only the first has executed,
\* the second's after the second has.
C23_LatestExecutedDefinition ==
    [][(/\ Len(frames) = 0
        /\ Dispatch("CALL_FUNCTION")
        /\ Len(frames') = 1
        /\ StraightLine
        /\ DefinedAtTopLevelOnly(frames'[1].func.name)) =>
          LET executed ==
                {i \in DefinitionsOf(frames'[1].func.name) :
                   DefinitionAt(i).offset < pc}
          IN  /\ executed # {}
              /\ code' = DefinitionAt(Latest(executed)).code
      ]_vars

(***************************************************************************)
(* C24: literals through compilation and execution.                        *)
(***************************************************************************)
\* C24: when the VM executes the LOAD_CONST emitted for a literal of the
\* sequence it is running, the value it pushes is that literal, of the type
\* and with the value written, whatever literals the program has before it;
\* and x = 7; print(7.0 / 2); prints 3.5.
C24_LiteralRoundTrip ==
    [][/\ \A i \in 1..Len(CurrentIR) :
            ( /\ status = "running" /\ InLoop
              /\ CurrentIR[i].op = "LOAD_CONST"
              /\ pc = EmittedOffset(CurrentIR, i)
              /\ status' = "running" )
            => stack' = Append(stack, CurrentIR[i].val)
       /\ (prog = <<24, 25>> /\ status' = "done") =>
            output' = << <<FloatV(7, 2)>> >>
      ]_vars

(***************************************************************************)
(* C25: the caller's part of the operand stack.                            *)
(***************************************************************************)
\* what the caller of an invocation had on the stack below the arguments
\* when the CALL_FUNCTION was dispatched
CallerPart(frame) == BelowArgs(frame, NumArgs(frame))

\* C25: while a call is active the stack still begins with what the caller
\* had below the call's arguments, and when the call returns the stack is
\* exactly that followed by the one result value.
C25_CallerStackUntouched ==
    [][/\ \A k \in 1..Len(frames) :
            /\ Len(stack) >= Len(CallerPart(frames[k]))
            /\ SubSeq(stack, 1, Len(CallerPart(frames[k])))
                 = CallerPart(frames[k])
       /\ Returning =>
            /\ Len(stack') = Len(CallerPart(TopFrame)) + 1
            /\ SubSeq(stack', 1, Len(stack') - 1) = CallerPart(TopFrame)
      ]_vars

(***************************************************************************)
(* C26: and, or.                                                           *)
(***************************************************************************)
\* the "and" and "or" expressions that are arguments of the print
\* statements of the program, each with the number of its statement
BooleanExprs ==
    UNION {{[stmt |-> i, expr |-> StatementAt(prog[i]).args[a]] :
              a \in {b \in 1..Len(StatementAt(prog[i]).args) :
                       /\ StatementAt(prog[i]).args[b].k = "Binary"
                       /\ StatementAt(prog[i]).args[b].op \in {"and", "or"}}} :
           i \in {j \in 1..Len(prog) : StatementAt(prog[j]).k = "Print"}}

\* C26: an "and" or "or" expression lowers to the code of its left operand,
\* the code of its right operand and one AND or OR instruction, with no jump
\* that could skip the right operand; so at top level, once the left operand
\* of such an expression whose right operand is a call has been evaluated,
\* the next step is the CALL_FUNCTION of that call, whatever the value of
\* the left operand, and the call runs or raises.  An AND or OR that
\* completes replaces the two values by one of them: AND by the left one if
\* it is falsy and by the right one otherwise, OR by the left one if it is
\* truthy and by the right one otherwise.
C26_NoShortCircuit ==
    [][/\ \A b \in BooleanExprs :
            /\ Lowered(b.expr)
                 = Lowered(b.expr.left) \o Lowered(b.expr.right)
                     \o <<IRInstruction(BinaryOpMap(b.expr.op))>>
            /\ \A j \in 1..Len(Lowered(b.expr)) :
                  Lowered(b.expr)[j].op
                     \notin {"JUMP", "JUMP_IF_FALSE", "LABEL"}
            /\ ( /\ b.expr.right.k = "Call"
                 /\ Len(b.expr.right.args) = 0
                 /\ StatementAt(prog[b.stmt]).args[1] = b.expr
                 /\ Len(frames) = 0 /\ status = "running"
                 /\ steps' # steps
                 /\ pc = EmittedOffset(ProgramIR.instructions,
                                       LoweredBefore(b.stmt)
                                         + Len(Lowered(b.expr.left)) + 1) )
               => /\ last'.op = "CALL_FUNCTION"
                  /\ last'.name = b.expr.right.func.name
                  /\ \/ status' = "running" /\ Len(frames') = 1
                     \/ status' = "error"
       /\ \A op \in {"AND", "OR"} :
            (Dispatch(op) /\ status' = "running") =>
               LET l == stack[Len(stack) - 1]
                   r == stack[Len(stack)]
               IN  /\ Len(stack) >= 2
                   /\ stack' = Append(SubSeq(stack, 1, Len(stack) - 2),
                                      IF op = "AND"
                                      THEN (IF Truthy(l) THEN r ELSE l)
                                      ELSE (IF Truthy(l) THEN l ELSE r))
      ]_vars

\* def f() { return 7; } print(0 and f()); is running: the left operand is
\* falsy, f has been called all the same and has returned, and AND has left
\* the left operand 0, not False
C26_Witness ==
    /\ prog = <<20, 22>>
    /\ status = "running"
    /\ last.op = "AND"
    /\ steps = 7
    /\ stack = <<IntV(0)>>

=============================================================================
